---------------------------- MODULE Spec2Model ----------------------------
(***************************************************************************)
(* Model of the anathema playground: the TextBuffer (document, cursor,     *)
(* scroll offset and per-line highlighter) of src/src/text_buffer.rs, the  *)
(* render worker / preview controller of src/src/thread_backend.rs and    *)
(* src/src/editor.rs, and the Editor's run_code with its template          *)
(* validation and save.                                                    *)
(*                                                                         *)
(* Rust indices are 0-based; TLA+ sequences are 1-based, so the line at    *)
(* Rust index i is lines[i + 1].                                           *)
(***************************************************************************)
EXTENDS Integers, Sequences, FiniteSets, TLC

VARIABLES
    tb,     \* the TextBuffer: lines, offset_y, cursor_x, cursor_y, width, height
            \* and panic, the message of the panic that unwound the last call
    rt,     \* the observer of edit round trips: what was inserted since a snapshot
    slot,   \* THREAD_HANDLE: 0 for None, else the worker whose handle it holds
    main,   \* the UI thread's position in Editor::run_code
    workers,\* per worker: its thread, both channels and what it has sent
    hook,   \* the process-wide panic hook: 0 for the default hook, else the
            \* worker whose frame sender (panic_sender) the hook holds
    val,    \* a blueprint and what validate_blueprint returned for it
    ed      \* the Editor, its backing file, ERROR and the events it published

(***************************************************************************)
(* Bounds of the model.                                                    *)
(***************************************************************************)
MaxLines == 5       \* the document never grows past this many lines
MaxCells == 2       \* nor past this many cells in total
MaxHeight == 3      \* viewport heights 1..MaxHeight
MaxInsert == 2      \* longest run of insertions a round trip observes
MaxInitLen == 2     \* longest text a buffer is loaded from
MaxCol == 4         \* move_right is not taken with the column at this value
ViewWidth == 8      \* the one viewport width used (no operation reads it)
MaxWorkers == 2     \* previews started in one run
MaxEvents == 2      \* control messages waiting in a worker's channel
MaxFrames == 2      \* frames waiting in a worker's channel
MaxSide == 2        \* frame widths 1..MaxSide
MaxHlCells == 3     \* cells of the line under the highlighter
MaxNodes == 3       \* nodes of a blueprint tree
MaxElses == 2       \* else nodes of one ControlFlow

TBChars == {"a", "b"}       \* the non-newline characters typed
NL == "\n"
\* the characters typed under the highlighter: one or two of each class the
\* scanner tells apart
HLChars == {"a", "1", "\"", "\\", "/", "("}

(***************************************************************************)
(* Helpers on sequences and unsigned arithmetic.                           *)
(***************************************************************************)
SatSub(a, b) == IF a >= b THEN a - b ELSE 0

Min(a, b) == IF a <= b THEN a ELSE b

\* a faulty variant of the insertion: the element goes to the end (Vec::push)
InsertAtEnd(s, i, x) == Append(s, x)

\* Vec::insert(i, x), for i <= len
InsertAt(s, i, x) == SubSeq(s, 1, i) \o <<x>> \o SubSeq(s, i + 1, Len(s))

\* Vec::remove(i), for i < len
RemoveAt(s, i) == SubSeq(s, 1, i) \o SubSeq(s, i + 2, Len(s))

\* impl From<char> for Cell
Cell(c) == [c |-> c, s |-> "None"]

\* lines.get(i).map(Vec::len).unwrap_or_default()
LineLen(t, i) == IF i < Len(t.lines) THEN Len(t.lines[i + 1]) ELSE 0

Panic(t, msg) == [t EXCEPT !.panic = msg]

RECURSIVE SumLens(_)
SumLens(ls) == IF ls = <<>> THEN 0 ELSE Len(Head(ls)) + SumLens(Tail(ls))

(***************************************************************************)
(* TextBuffer::new and TextBuffer::from_iter.                              *)
(***************************************************************************)
\* a faulty variant of new: the document starts with no line
NewWithoutLine(w, h) ==
    [lines |-> <<>>, offset_y |-> 0, cursor_x |-> 0, cursor_y |-> 0,
     width |-> w, height |-> h, panic |-> ""]

New(w, h) ==
    [lines |-> << <<>> >>, offset_y |-> 0, cursor_x |-> 0, cursor_y |-> 0,
     width |-> w, height |-> h, panic |-> ""]

RECURSIVE FromIterLines(_, _)
FromIterLines(lines, chars) ==
    IF chars = <<>> THEN lines
    ELSE IF Head(chars) = NL
         THEN FromIterLines(Append(lines, <<>>), Tail(chars))
         ELSE FromIterLines(
                  [lines EXCEPT ![Len(lines)] = Append(@, Cell(Head(chars)))],
                  Tail(chars))

FromIter(chars, w, h) ==
    [lines |-> FromIterLines(<< <<>> >>, chars), offset_y |-> 0,
     cursor_x |-> 0, cursor_y |-> 0, width |-> w, height |-> h, panic |-> ""]

(***************************************************************************)
(* The scroll adjustment every editing operation ends with:                *)
(*   if cursor_y + offset_y >= height {                                    *)
(*       offset_y = cursor_y + offset_y - height + 1; cursor_y = height-1 }*)
(***************************************************************************)
\* a faulty variant of the adjustment: the offset is moved, the row is not
ScrollIntoViewRowKept(t) ==
    IF t.cursor_y + t.offset_y >= t.height
    THEN [t EXCEPT !.offset_y = t.cursor_y + t.offset_y - t.height + 1]
    ELSE t

ScrollIntoView(t) ==
    IF t.cursor_y + t.offset_y >= t.height
    THEN [t EXCEPT !.offset_y = t.cursor_y + t.offset_y - t.height + 1,
                   !.cursor_y = t.height - 1]
    ELSE t

(***************************************************************************)
(* The lazy correction of a cursor row at or beyond the line count:        *)
(*   if offset_y >= len { offset_y = len.saturating_sub(1) }               *)
(*   cursor_y = len - offset_y - less                                      *)
(* applied by the caller under its own condition.                          *)
(***************************************************************************)
ClampRow(t, less) ==
    LET len == Len(t.lines)
        o == IF t.offset_y >= len THEN SatSub(len, 1) ELSE t.offset_y
    IN  IF len < o + less
        THEN Panic(t, "attempt to subtract with overflow")
        ELSE [t EXCEPT !.offset_y = o, !.cursor_y = len - o - less]

(***************************************************************************)
(* TextBuffer::insert_newline                                              *)
(***************************************************************************)
InsertNewline(t) ==
    LET row == t.cursor_y + t.offset_y
        found == row < Len(t.lines)
    IN  IF found /\ t.cursor_x > Len(t.lines[row + 1])
        THEN Panic(t, "split_off: at > len")
        ELSE
        LET new_line == IF found
                        THEN SubSeq(t.lines[row + 1], t.cursor_x + 1,
                                    Len(t.lines[row + 1]))
                        ELSE <<>>
            lines1 == IF found
                      THEN [t.lines EXCEPT ![row + 1] = SubSeq(@, 1, t.cursor_x)]
                      ELSE t.lines
            cy == t.cursor_y + 1
        IN  IF cy >= Len(lines1)
            THEN LET lines2 == Append(lines1, new_line)
                     cy2 == Len(lines2) - 1
                 IN  IF cy2 >= t.height
                     THEN [t EXCEPT !.lines = lines2, !.cursor_x = 0,
                                    !.offset_y = cy2 - t.height + 1,
                                    !.cursor_y = t.height - 1]
                     ELSE [t EXCEPT !.lines = lines2, !.cursor_x = 0,
                                    !.cursor_y = cy2]
            ELSE IF t.offset_y + cy > Len(lines1)
                 THEN Panic(t, "insert: index out of bounds")
                 ELSE ScrollIntoView(
                          [t EXCEPT !.lines = InsertAt(lines1, t.offset_y + cy,
                                                       new_line),
                                    !.cursor_x = 0, !.cursor_y = cy])

(***************************************************************************)
(* TextBuffer::insert_char                                                 *)
(***************************************************************************)
InsertChar(t, c) ==
    IF c = NL THEN InsertNewline(t)
    ELSE
    LET row == t.offset_y + t.cursor_y IN
    IF row < Len(t.lines)
    THEN LET line == t.lines[row + 1] IN
         IF t.cursor_x < Len(line)
         THEN [t EXCEPT !.lines[row + 1] = InsertAt(line, t.cursor_x, Cell(c)),
                        !.cursor_x = t.cursor_x + 1]
         ELSE [t EXCEPT !.lines[row + 1] = Append(line, Cell(c)),
                        !.cursor_x = Len(line) + 1]
    ELSE LET t1 == [t EXCEPT !.lines = Append(t.lines, <<Cell(c)>>),
                             !.cursor_x = 1, !.cursor_y = t.cursor_y + 1]
             t2 == IF t1.cursor_y + t1.offset_y >= Len(t1.lines)
                   THEN ClampRow(t1, 1)
                   ELSE t1
         IN  IF t2.panic # "" THEN t2 ELSE ScrollIntoView(t2)

(***************************************************************************)
(* TextBuffer::remove_char_before                                          *)
(***************************************************************************)
\* a faulty variant of the merge: the removed line is not appended
MergeLinesLosingLine(lines, row) == RemoveAt(lines, row)

\* a faulty variant of the merge: the removed line is put in front of the
\* previous line instead of after it
MergeLinesReversed(lines, row) ==
    [RemoveAt(lines, row) EXCEPT ![row] = lines[row + 1] \o @]

\* the merge at column 0: let line = lines.remove(row);
\* lines[row - 1].extend(line)
MergeLines(lines, row) ==
    [RemoveAt(lines, row) EXCEPT ![row] = @ \o lines[row + 1]]

RemoveCharBefore(t) ==
    LET row == t.cursor_y + t.offset_y IN
    IF row = 0 /\ t.cursor_x = 0 THEN t
    ELSE IF row < Len(t.lines)
    THEN LET line == t.lines[row + 1] IN
         IF t.cursor_x = 0
         THEN \* row > 0 here: merge the line into the one before it
              LET lines1 == RemoveAt(t.lines, row)
                  merged == MergeLines(t.lines, row)
              IN  IF t.cursor_y = 0
                  THEN IF t.offset_y = 0
                       THEN Panic(t, "attempt to subtract with overflow")
                       ELSE [t EXCEPT !.lines = merged,
                                      !.cursor_x = Len(lines1[row]),
                                      !.offset_y = t.offset_y - 1]
                  ELSE [t EXCEPT !.lines = merged,
                                 !.cursor_x = Len(lines1[row]),
                                 !.cursor_y = t.cursor_y - 1]
         ELSE IF t.cursor_x >= Len(line)
         THEN \* line.pop(); cursor_x = line.len()
              [t EXCEPT !.lines[row + 1] = SubSeq(line, 1, SatSub(Len(line), 1)),
                        !.cursor_x = SatSub(Len(line), 1)]
         ELSE [t EXCEPT !.lines[row + 1] = RemoveAt(line, t.cursor_x - 1),
                        !.cursor_x = t.cursor_x - 1]
    ELSE LET t1 == ClampRow(t, 0)      \* row >= len holds in this branch
             t2 == IF t1.panic # "" THEN t1 ELSE ScrollIntoView(t1)
         IN  IF t2.panic # "" THEN t2
             ELSE [t2 EXCEPT !.cursor_x = LineLen(t2, t2.cursor_y + t2.offset_y)]

(***************************************************************************)
(* Cursor motions.                                                         *)
(***************************************************************************)
MoveToStart(t) == [t EXCEPT !.cursor_x = 0, !.cursor_y = 0, !.offset_y = 0]

MoveToLinestart(t) == [t EXCEPT !.cursor_x = 0]

MoveToEnd(t) ==
    LET cy == SatSub(Len(t.lines), 1)
        cx == LineLen(t, cy)
    IN  IF cy >= t.height
        THEN [t EXCEPT !.cursor_x = cx, !.offset_y = cy - t.height + 1,
                       !.cursor_y = t.height - 1]
        ELSE [t EXCEPT !.cursor_x = cx, !.cursor_y = cy]

\* the branch move_to_lineend and move_down share when there is no line below:
\* correct a stale row, then take the length of lines.get(cursor_y)
LineEndOfRow(t) ==
    IF Len(t.lines) = 0
    THEN [t EXCEPT !.cursor_x = 0, !.cursor_y = 0, !.offset_y = 0]
    ELSE LET t1 == IF t.cursor_y + t.offset_y >= Len(t.lines)
                   THEN ClampRow(t, 0)
                   ELSE t
         IN  IF t1.panic # "" THEN t1
             ELSE [t1 EXCEPT !.cursor_x = LineLen(t1, t1.cursor_y)]

MoveToLineend(t) == LineEndOfRow(t)

MoveDown(t) ==
    IF t.cursor_y + t.offset_y + 1 < Len(t.lines)
    THEN LET t1 == ScrollIntoView([t EXCEPT !.cursor_y = t.cursor_y + 1])
             row == t1.cursor_y + t1.offset_y
         IN  IF row < Len(t1.lines)
             THEN [t1 EXCEPT !.cursor_x = Min(t1.cursor_x, Len(t1.lines[row + 1]))]
             ELSE t1
    ELSE LineEndOfRow(t)

MoveRight(t) ==
    LET t1 == IF t.cursor_y + t.offset_y >= Len(t.lines)
              THEN ClampRow(t, 0)
              ELSE t
    IN  IF t1.panic # "" \/ Len(t1.lines) = 0 THEN t1
        ELSE IF t1.cursor_x = LineLen(t1, t1.offset_y + t1.cursor_y)
             THEN MoveDown([t1 EXCEPT !.cursor_x = 0])
             ELSE [t1 EXCEPT !.cursor_x = t1.cursor_x + 1]

\* the step up one row that move_up and move_left share, after the lazy
\* correction; guarded says whether offset_y -= 1 is under `if offset_y > 0`
RowUp(t, guarded) ==
    LET t1 == IF t.cursor_y + t.offset_y > Len(t.lines)
              THEN ClampRow(t, 0)
              ELSE t
    IN  IF t1.panic # "" THEN t1
        ELSE IF t1.cursor_y = 0
             THEN IF t1.offset_y > 0
                  THEN [t1 EXCEPT !.offset_y = t1.offset_y - 1]
                  ELSE IF guarded THEN t1
                       ELSE Panic(t1, "attempt to subtract with overflow")
             ELSE [t1 EXCEPT !.cursor_y = t1.cursor_y - 1]

MoveUp(t) ==
    IF t.cursor_y + t.offset_y = 0 THEN [t EXCEPT !.cursor_x = 0]
    ELSE LET t1 == RowUp(t, TRUE)
             row == t1.offset_y + t1.cursor_y
         IN  IF t1.panic = "" /\ row < Len(t1.lines)
             THEN [t1 EXCEPT !.cursor_x = Min(t1.cursor_x, Len(t1.lines[row + 1]))]
             ELSE t1

MoveLeft(t) ==
    IF t.cursor_y + t.offset_y = 0 /\ t.cursor_x = 0 THEN t
    ELSE IF t.cursor_x = 0
    THEN LET t1 == RowUp(t, FALSE)
             row == t1.offset_y + t1.cursor_y
         IN  IF t1.panic = "" /\ row < Len(t1.lines)
             THEN [t1 EXCEPT !.cursor_x = Len(t1.lines[row + 1])]
             ELSE t1
    ELSE [t EXCEPT !.cursor_x = t.cursor_x - 1]

(***************************************************************************)
(* The highlighter: TextBuffer::highlight_line, a single forward scan of   *)
(* one line.  A character is a one-character string.                       *)
(***************************************************************************)
Lower == {"a", "b", "c", "d", "e", "f", "g", "h", "i", "j", "k", "l", "m",
          "n", "o", "p", "q", "r", "s", "t", "u", "v", "w", "x", "y", "z"}
Upper == {"A", "B", "C", "D", "E", "F", "G", "H", "I", "J", "K", "L", "M",
          "N", "O", "P", "Q", "R", "S", "T", "U", "V", "W", "X", "Y", "Z"}
Digits == {"0", "1", "2", "3", "4", "5", "6", "7", "8", "9"}
BraceChars == {"[", "]", "{", "}", "(", ")"}
\* a faulty variant of the quote characters: only the double quote
QuoteCharsDoubleOnly == {"\""}

\* '\'' | '"': the characters that open a string
QuoteChars == {"'", "\""}

\* 'a'..='z' | 'A'..='Z' | '_' | '|' | '0'..='9'
IsIdentChar(c) == c \in Lower \cup Upper \cup Digits \cup {"_", "|"}

\* 'a'..='f' | 'A'..='F' | '0'..='9'
IsHexChar(c) ==
    c \in {"a", "b", "c", "d", "e", "f", "A", "B", "C", "D", "E", "F"} \cup Digits

\* '0'..='9' | '.'
IsNumberChar(c) == c \in Digits \cup {"."}

\* crate::editor::VALID_WIDGETS, the widget names the highlighter knows
VALID_WIDGETS ==
    { <<"t", "e", "x", "t">>, <<"s", "p", "a", "n">>,
      <<"b", "o", "r", "d", "e", "r">>, <<"a", "l", "i", "g", "n">>,
      <<"v", "s", "t", "a", "c", "k">>, <<"h", "s", "t", "a", "c", "k">>,
      <<"z", "s", "t", "a", "c", "k">>, <<"e", "x", "p", "a", "n", "d">>,
      <<"s", "p", "a", "c", "e", "r">>,
      <<"p", "o", "s", "i", "t", "i", "o", "n">>,
      <<"o", "v", "e", "r", "f", "l", "o", "w">>,
      <<"c", "a", "n", "v", "a", "s">>,
      <<"c", "o", "n", "t", "a", "i", "n", "e", "r">>,
      <<"p", "a", "d", "d", "i", "n", "g">>, <<"r", "o", "w">>,
      <<"c", "o", "l", "u", "m", "n">> }

\* line[from..to].iter_mut().for_each(|v| v.1 = style), 0-based, to excluded
TagRange(line, from, to, style) ==
    [i \in 1..Len(line) |->
        IF from < i /\ i <= to THEN [line[i] EXCEPT !.s = style] ELSE line[i]]

\* a faulty variant of the identifier tagging: widget names are not looked up
TagIdentWithoutWidgets(line, cur, from, to) ==
    IF cur = <<"l", "o", "o", "p">> THEN TagRange(line, from, to, "Number")
    ELSE IF cur \in {<<"t", "r", "u", "e">>, <<"f", "a", "l", "s", "e">>}
    THEN TagRange(line, from, to, "Boolean")
    ELSE line

\* what leaving the Ident state does to the identifier's cells
TagIdent(line, cur, from, to) ==
    IF cur = <<"l", "o", "o", "p">> THEN TagRange(line, from, to, "Number")
    ELSE IF cur \in VALID_WIDGETS THEN TagRange(line, from, to, "Widget")
    ELSE IF cur \in {<<"t", "r", "u", "e">>, <<"f", "a", "l", "s", "e">>}
    THEN TagRange(line, from, to, "Boolean")
    ELSE line

\* the first statement of highlight_line: every tag back to None
ResetTags(line) == [i \in 1..Len(line) |-> [line[i] EXCEPT !.s = "None"]]

\* the scanner's locals before the loop
ScanStart(line) ==
    [line |-> line, cur |-> <<>>, state |-> "None", started_at |-> 0,
     current |-> 0, str_is_escape |-> FALSE, str_starting_quote |-> " "]

\* the brace arm at the top of the loop body
ScanBrace(z, char) ==
    IF z.state # "String" /\ char \in BraceChars
    THEN [z EXCEPT !.line[z.current + 1].s = "Braces"]
    ELSE z

\* the match on highlight_state; skip says the String arm ended the
\* iteration with current += 1; continue
ScanState(z, char) ==
    LET from == z.started_at
        to == z.current
        leave(style) == [z EXCEPT !.line = TagRange(z.line, from, to, style),
                                  !.state = "None"]
    IN  CASE z.state = "Comment" ->
                [z |-> [z EXCEPT !.line[z.current + 1].s = "Comment"], skip |-> FALSE]
          [] z.state = "Ident" ->
                [z |-> IF IsIdentChar(char)
                       THEN [z EXCEPT !.cur = Append(@, char)]
                       ELSE [z EXCEPT !.line = TagIdent(z.line, z.cur, from, to),
                                      !.cur = <<>>, !.state = "None"],
                 skip |-> FALSE]
          [] z.state = "Hex" ->
                [z |-> IF IsHexChar(char) THEN z ELSE leave("HexVal"), skip |-> FALSE]
          [] z.state = "Component" ->
                [z |-> IF IsIdentChar(char) THEN z ELSE leave("Component"),
                 skip |-> FALSE]
          [] z.state = "Number" ->
                [z |-> IF IsNumberChar(char) THEN z ELSE leave("Number"),
                 skip |-> FALSE]
          [] z.state = "String" ->
                IF z.str_is_escape
                THEN [z |-> [z EXCEPT !.str_is_escape = FALSE], skip |-> FALSE]
                ELSE IF char = "\\"
                THEN [z |-> [z EXCEPT !.str_is_escape = TRUE], skip |-> FALSE]
                ELSE IF char = z.str_starting_quote
                THEN [z |-> [z EXCEPT !.line = TagRange(z.line, from, to + 1, "String"),
                                      !.state = "None",
                                      !.current = z.current + 1],
                      skip |-> TRUE]
                ELSE [z |-> z, skip |-> FALSE]
          [] OTHER -> [z |-> z, skip |-> FALSE]

\* the match on (char, next char) that opens a token in state None
ScanOpen(z, char, next) ==
    IF z.state # "None" THEN z
    ELSE IF char = "@"
    THEN [z EXCEPT !.cur = <<>>, !.started_at = z.current, !.state = "Component"]
    ELSE IF char = "/" /\ next = "/"
    THEN [z EXCEPT !.started_at = z.current,
                   !.line[z.current + 1].s = "Comment", !.state = "Comment"]
    ELSE IF IsNumberChar(char) \/ (char = "-" /\ IsNumberChar(next))
    THEN [z EXCEPT !.started_at = z.current, !.state = "Number"]
    ELSE IF char \in QuoteChars
    THEN [z EXCEPT !.started_at = z.current, !.state = "String",
                   !.str_starting_quote = char]
    ELSE IF char = "#"
    THEN [z EXCEPT !.started_at = z.current, !.state = "Hex"]
    ELSE IF char \in Lower \cup Upper
    THEN [z EXCEPT !.started_at = z.current, !.state = "Ident", !.cur = <<char>>]
    ELSE z

\* one iteration of while current < line.len()
ScanStep(z) ==
    LET char == z.line[z.current + 1].c
        next == IF z.current + 1 < Len(z.line) THEN z.line[z.current + 2].c ELSE "nul"
        r == ScanState(ScanBrace(z, char), char)
    IN  IF r.skip THEN r.z
        ELSE [ScanOpen(r.z, char, next) EXCEPT !.current = z.current + 1]

RECURSIVE Scan(_)
Scan(z) == IF z.current < Len(z.line) THEN Scan(ScanStep(z)) ELSE z

\* a faulty variant of the match after the loop: an identifier still open at
\* the end of the line is not classified
ScanEndDroppingIdent(z) ==
    CASE z.state = "Hex" -> TagRange(z.line, z.started_at, z.current, "HexVal")
      [] z.state = "Component" ->
            TagRange(z.line, z.started_at, z.current, "Component")
      [] z.state = "Number" -> TagRange(z.line, z.started_at, z.current, "Number")
      [] OTHER -> z.line

\* the match after the loop: a token still open at the end of the line
ScanEnd(z) ==
    CASE z.state = "Ident" -> TagIdent(z.line, z.cur, z.started_at, z.current)
      [] z.state = "Hex" -> TagRange(z.line, z.started_at, z.current, "HexVal")
      [] z.state = "Component" ->
            TagRange(z.line, z.started_at, z.current, "Component")
      [] z.state = "Number" -> TagRange(z.line, z.started_at, z.current, "Number")
      [] OTHER -> z.line

\* a faulty variant of highlight_line: the tags are not reset first
HighlightLineKeepingTags(line) == ScanEnd(Scan(ScanStart(line)))

\* highlight_line on the cells of one line
HighlightLine(line) == ScanEnd(Scan(ScanStart(ResetTags(line))))

\* TextBuffer::highlight_line(line_idx); an index out of range panics
HighlightLineAt(t, line_idx) ==
    IF line_idx >= Len(t.lines) THEN Panic(t, "index out of bounds")
    ELSE [t EXCEPT !.lines[line_idx + 1] = HighlightLine(@)]

\* TextBuffer::highlight_all
HighlightAll(t) ==
    [t EXCEPT !.lines = [i \in 1..Len(t.lines) |-> HighlightLine(t.lines[i])]]

\* TextBuffer::highlight_current_line
HighlightCurrentLine(t) ==
    IF t.cursor_y + t.offset_y < Len(t.lines)
    THEN HighlightLineAt(t, t.cursor_y + t.offset_y)
    ELSE t

(***************************************************************************)
(* The documents a buffer is built from: every character sequence of at    *)
(* most MaxInitLen characters with fewer than MaxLines newlines.           *)
(***************************************************************************)
RECURSIVE Strings(_, _)
Strings(alphabet, n) ==
    IF n = 0 THEN {<<>>}
    ELSE LET shorter == Strings(alphabet, n - 1)
         IN  shorter \cup {Append(s, c) : s \in shorter, c \in alphabet}

Newlines(s) == Cardinality({i \in 1..Len(s) : s[i] = NL})

InitialTexts ==
    {s \in Strings(TBChars \cup {NL}, MaxInitLen) : Newlines(s) < MaxLines}

Heights == 1..MaxHeight

(***************************************************************************)
(* The observer of edit round trips.  It changes nothing in the buffer: it *)
(* may take a snapshot of the buffer before an insertion and then counts   *)
(* the insertions and the backspaces that follow it.                       *)
(*   idle      nothing observed                                            *)
(*   ins       n characters (no newline) inserted since snap               *)
(*   del       backspaces under way, n insertions not yet undone           *)
(*   ins_done  each of the insertions since snap was followed by its       *)
(*             backspace                                                   *)
(*   nl        a newline inserted at snap                                  *)
(*   nl_done   that newline immediately followed by one backspace          *)
(* It also records a highlighter call: snap is the buffer before it and n  *)
(* the 0-based index of the line it was called on.                         *)
(*   hl_line   highlight_current_line ran on line n of snap                *)
(*   hl_all    highlight_all ran on snap                                   *)
(***************************************************************************)
RtIdle == [phase |-> "idle", snap |-> <<>>, n |-> 0, typed |-> 0]

RtAfterInsert(r, t, c) ==
    {RtIdle}
    \cup (IF c = NL
          THEN {[phase |-> "nl", snap |-> t, n |-> 1, typed |-> 1]}
          ELSE {[phase |-> "ins", snap |-> t, n |-> 1, typed |-> 1]}
               \cup (IF r.phase = "ins" /\ r.n < MaxInsert
                     THEN {[r EXCEPT !.n = r.n + 1, !.typed = r.typed + 1]}
                     ELSE {}))

RtAfterRemove(r) ==
    IF r.phase \in {"ins", "del"}
    THEN [r EXCEPT !.n = r.n - 1,
                   !.phase = IF r.n = 1 THEN "ins_done" ELSE "del"]
    ELSE IF r.phase = "nl" THEN [r EXCEPT !.phase = "nl_done", !.n = 0]
    ELSE RtIdle

(***************************************************************************)
(* The validation of a compiled template: VALID_COMPONENTS and             *)
(* validate_blueprint of src/src/editor.rs, over anathema's Blueprint.     *)
(***************************************************************************)
\* static VALID_COMPONENTS: the widget names validate_blueprint accepts
VALID_COMPONENTS ==
    { <<"t", "e", "x", "t">>, <<"s", "p", "a", "n">>,
      <<"b", "o", "r", "d", "e", "r">>, <<"a", "l", "i", "g", "n">>,
      <<"v", "s", "t", "a", "c", "k">>, <<"h", "s", "t", "a", "c", "k">>,
      <<"z", "s", "t", "a", "c", "k">>, <<"e", "x", "p", "a", "n", "d">>,
      <<"s", "p", "a", "c", "e", "r">>,
      <<"p", "o", "s", "i", "t", "i", "o", "n">>,
      <<"o", "v", "e", "r", "f", "l", "o", "w">>,
      <<"c", "a", "n", "v", "a", "s">>,
      <<"c", "o", "n", "t", "a", "i", "n", "e", "r">> }

\* the idents of the widgets in the blueprints validated: a name of
\* VALID_COMPONENTS, a name only VALID_WIDGETS has, and a name neither has
WidgetTags ==
    { <<"t", "e", "x", "t">>, <<"p", "a", "d", "d", "i", "n", "g">>,
      <<"f", "r", "o", "b", "n", "i", "c", "a", "t", "e">> }

\* anathema's Blueprint, its four variants in one record shape:
\*   Single       ident and body = children
\*   Component    body
\*   For          body
\*   ControlFlow  body = if_node.body and elses = the bodies of the else
\*                nodes, in order
Single(ident, children) ==
    [kind |-> "Single", ident |-> ident, body |-> children, elses |-> <<>>]

Component(body) ==
    [kind |-> "Component", ident |-> <<>>, body |-> body, elses |-> <<>>]

For(body) ==
    [kind |-> "For", ident |-> <<>>, body |-> body, elses |-> <<>>]

ControlFlow(if_body, elses) ==
    [kind |-> "ControlFlow", ident |-> <<>>, body |-> if_body, elses |-> elses]

\* iter().flat_map(|node| node.body.iter()) over a sequence of bodies
RECURSIVE FlatMapBodies(_)
FlatMapBodies(bodies) ==
    IF bodies = <<>> THEN <<>>
    ELSE Head(bodies) \o FlatMapBodies(Tail(bodies))

\* what the ControlFlow arm pushes: if_node.body chained with the bodies of
\* all else nodes
ControlFlowBodies(bp) == bp.body \o FlatMapBodies(bp.elses)

\* the loop of validate_blueprint on the stack blueprints_to_validate: pop
\* the last blueprint, extend the stack with its body, and return Err with
\* the ident of a Single that is not in VALID_COMPONENTS; Ok when the stack
\* is empty.  examined counts the blueprints popped.
RECURSIVE ValidateLoop(_, _)
ValidateLoop(stack, examined) ==
    IF stack = <<>>
    THEN [ok |-> TRUE, ident |-> <<>>, examined |-> examined]
    ELSE LET blueprint == stack[Len(stack)]
             rest == SubSeq(stack, 1, Len(stack) - 1)
         IN  CASE blueprint.kind = "Component" ->
                     ValidateLoop(rest \o blueprint.body, examined + 1)
               [] blueprint.kind = "ControlFlow" ->
                     ValidateLoop(rest \o ControlFlowBodies(blueprint),
                                  examined + 1)
               [] blueprint.kind = "For" ->
                     ValidateLoop(rest \o blueprint.body, examined + 1)
               [] blueprint.kind = "Single" ->
                     IF blueprint.ident \notin VALID_COMPONENTS
                     THEN [ok |-> FALSE, ident |-> blueprint.ident,
                           examined |-> examined + 1]
                     ELSE ValidateLoop(rest \o blueprint.body, examined + 1)

\* validate_blueprint(&blueprint): the stack starts as vec![blueprint]
ValidateBlueprint(blueprint) == ValidateLoop(<<blueprint>>, 0)

\* the blueprints Document::compile may return: every tree of n nodes, the
\* widgets named from WidgetTags and a ControlFlow with at most MaxElses
\* else nodes
RECURSIVE BlueprintsOf(_), BodiesOf(_), ElsesOf(_, _)
BodiesOf(n) ==
    IF n = 0 THEN {<<>>}
    ELSE UNION {{<<b>> \o rest : b \in BlueprintsOf(k), rest \in BodiesOf(n - k)} :
                   k \in 1..n}

ElsesOf(n, m) ==
    (IF n = 0 THEN {<<>>} ELSE {})
    \cup (IF m = 0 THEN {}
          ELSE UNION {{<<body>> \o rest :
                          body \in BodiesOf(k), rest \in ElsesOf(n - k, m - 1)} :
                         k \in 0..n})

BlueprintsOf(n) ==
    LET bodies == BodiesOf(n - 1) IN
    {Single(t, c) : t \in WidgetTags, c \in bodies}
    \cup {Component(b) : b \in bodies}
    \cup {For(b) : b \in bodies}
    \cup UNION {{ControlFlow(b, e) : b \in BodiesOf(k),
                                     e \in ElsesOf(n - 1 - k, MaxElses)} :
                   k \in 0..(n - 1)}

\* the blueprints of at most max nodes
BlueprintsUpTo(max) == UNION {BlueprintsOf(n) : n \in 1..max}

\* what validate_blueprint can return, Ok or Err with an ident: each of
\* these it returns for a blueprint of one node already
ValidationResults ==
    {[ok |-> ValidateBlueprint(bp).ok, ident |-> ValidateBlueprint(bp).ident] :
        bp \in BlueprintsOf(1)}

\* no validation has run
NoValidation ==
    [blueprint |-> Single(<<"t", "e", "x", "t">>, <<>>), done |-> FALSE,
     result |-> [ok |-> TRUE, ident |-> <<>>, examined |-> 0]]

(***************************************************************************)
(* The Editor of src/src/editor.rs: its document is a Vec<String>, here a  *)
(* sequence of sequences of characters, and run_code turns it into the     *)
(* template text that is compiled, saved and given to the worker.          *)
(***************************************************************************)
\* str::lines: the text split at '\n'; a final '\n' ends the last line and
\* starts no further one, and the empty text has no line
RECURSIVE StrLines(_, _)
StrLines(text, line) ==
    IF text = <<>> THEN (IF line = <<>> THEN <<>> ELSE <<line>>)
    ELSE IF Head(text) = NL THEN <<line>> \o StrLines(Tail(text), <<>>)
    ELSE StrLines(Tail(text), Append(line, Head(text)))

\* the text run_code uses for a document without content
NothingToSee ==
    <<"t", "e", "x", "t", " ", "\"", "n", "o", "t", "h", "i", "n", "g", " ",
      "t", "o", " ", "s", "e", "e", " ", "h", "e", "r", "e", "\"">>

\* for line in self.lines.iter() { string.push_str(line); string.push('\n') }
RECURSIVE PushLines(_)
PushLines(lines) ==
    IF lines = <<>> THEN <<>>
    ELSE Head(lines) \o <<NL>> \o PushLines(Tail(lines))

\* the string run_code builds from the document
TemplateString(lines) ==
    IF lines = <<>> \/ (Len(lines) = 1 /\ lines[1] = <<>>)
    THEN NothingToSee
    ELSE PushLines(lines)

\* ERROR before any failure, and what run_code puts into it
NoError == [msg |-> "", ident |-> <<>>]
CompileError == [msg |-> "Failed to compile the template: compile error", ident |-> <<>>]
ValidateError(ident) ==
    [msg |-> "Failed to compile the template: Could not find widget", ident |-> ident]
WriteError == [msg |-> "Failed to write the template: write error", ident |-> <<>>]
LaunchError == [msg |-> "Failed to write the template: spawn error", ident |-> <<>>]

\* what the properties keep of the editor before a run_code call
EdSnap(e) ==
    [lines |-> e.lines, offset_y |-> e.offset_y, cursor_x |-> e.cursor_x,
     cursor_y |-> e.cursor_y, disk |-> e.disk, handle |-> e.handle]

\* Editor::new(file) with the thread-locals ERROR and THREAD_HANDLE at their
\* defaults.  Of the record:
\*   file     whether self.file is Some
\*   disk     the content of the backing file
\*   handle   whether THREAD_HANDLE holds a handle
\*   running  whether the worker of that handle has been launched and not
\*            joined
\* and, kept for the properties only:
\*   outcome    how the last run_code call ended, "none" before the first
\*   published  the events that call published
\*   snap       the editor before that call
EditorNew(file, text) ==
    LET e == [lines |-> IF file THEN StrLines(text, <<>>)
                        ELSE << <<"v", "s", "t", "a", "c", "k">>, <<>> >>,
              offset_y |-> 0, cursor_x |-> 0, cursor_y |-> 0, file |-> file,
              should_rerender |-> 3, disk |-> text, error |-> NoError,
              handle |-> FALSE, running |-> FALSE, outcome |-> "none",
              published |-> <<>>]
    IN  e @@ [snap |-> EdSnap(e)]

\* the validation and the editor in the models that are about neither: no
\* blueprint has been compiled and no Editor is looked at
RunIdle == val = <<>> /\ ed = <<>>

tbvars == <<tb, rt>>
thvars == <<slot, main, workers, hook>>
edvars == <<val, ed>>
vars == <<tb, rt, slot, main, workers, hook, val, ed>>

(***************************************************************************)
(* The states the two subsystems start in.                                 *)
(***************************************************************************)
\* A worker that has not been launched.  Of a launched one:
\*   status   spawned, hooked (panic hook set), running (Runtime::run),
\*            stopped (run returned) or crashed (a panic unwound the thread)
\*   size     the size of the ThreadBackend's buffer, <<0, 0>> when there is
\*            none
\*   events   the control channel, oldest message first
\*   frames   the frame channel, oldest frame first
\*   handle   whether its AnathemaThreadHandle (frame receiver, control
\*            sender, JoinHandle) still exists
\* and, kept for the properties only:
\*   hooked   its closure has installed the panic hook
\*   quit     close() has sent it Quit
\*   applied  the size of the last Resize it dequeued, else its initial size
\*   last     the kind of the last frame put on its channel
\*   panics   how many synthetic panic frames were put on its channel
\*   late     whether the controller took a frame from it after Quit was sent
NoWorker ==
    [status |-> "none", size |-> <<0, 0>>, events |-> <<>>, frames |-> <<>>,
     handle |-> FALSE, hooked |-> FALSE, quit |-> FALSE, applied |-> <<0, 0>>,
     last |-> "none", panics |-> 0, late |-> FALSE]

MainIdle == [pc |-> "idle", id |-> 0]

ThreadsInit ==
    /\ slot = 0
    /\ main = MainIdle
    /\ workers = [i \in 1..MaxWorkers |-> NoWorker]
    /\ hook = 0


TBInit ==
    /\ \E h \in Heights :
          \/ tb = New(ViewWidth, h)
          \/ \E s \in InitialTexts : tb = FromIter(s, ViewWidth, h)
    /\ rt = RtIdle
    /\ ThreadsInit
    /\ RunIdle

\* the model's cap on the document size
Room(t, c) ==
    IF c = NL THEN Len(t.lines) < MaxLines ELSE SumLens(t.lines) < MaxCells

Alive == tb.panic = ""

Insert_char ==
    /\ Alive
    /\ \E c \in TBChars \cup {NL} :
          /\ Room(tb, c)
          /\ tb' = InsertChar(tb, c)
          /\ rt' \in RtAfterInsert(rt, tb, c)
    /\ UNCHANGED <<thvars, edvars>>

Remove_char_before ==
    /\ Alive
    /\ tb' = RemoveCharBefore(tb)
    /\ rt' = RtAfterRemove(rt)
    /\ UNCHANGED <<thvars, edvars>>

Move_to_start ==
    /\ Alive
    /\ tb' = MoveToStart(tb)
    /\ rt' = RtIdle
    /\ UNCHANGED <<thvars, edvars>>
Move_to_linestart ==
    /\ Alive
    /\ tb' = MoveToLinestart(tb)
    /\ rt' = RtIdle
    /\ UNCHANGED <<thvars, edvars>>
Move_to_end ==
    /\ Alive
    /\ tb' = MoveToEnd(tb)
    /\ rt' = RtIdle
    /\ UNCHANGED <<thvars, edvars>>
Move_to_lineend ==
    /\ Alive
    /\ tb' = MoveToLineend(tb)
    /\ rt' = RtIdle
    /\ UNCHANGED <<thvars, edvars>>
Move_down ==
    /\ Alive
    /\ tb' = MoveDown(tb)
    /\ rt' = RtIdle
    /\ UNCHANGED <<thvars, edvars>>
Move_right ==
    /\ Alive
    /\ tb.cursor_x < MaxCol
    /\ tb' = MoveRight(tb)
    /\ rt' = RtIdle
    /\ UNCHANGED <<thvars, edvars>>
Move_up ==
    /\ Alive
    /\ tb' = MoveUp(tb)
    /\ rt' = RtIdle
    /\ UNCHANGED <<thvars, edvars>>
Move_left ==
    /\ Alive
    /\ tb' = MoveLeft(tb)
    /\ rt' = RtIdle
    /\ UNCHANGED <<thvars, edvars>>

TBNext ==
    \/ Insert_char
    \/ Remove_char_before
    \/ Move_to_start
    \/ Move_to_linestart
    \/ Move_to_end
    \/ Move_to_lineend
    \/ Move_down
    \/ Move_right
    \/ Move_up
    \/ Move_left

Spec == TBInit /\ [][TBNext]_vars

(***************************************************************************)
(* The buffer under the highlighter, holding one line: edits leave the     *)
(* tags of the cells they do not touch as they are, and the highlighter is *)
(* called on the cursor's line or on the whole document.                   *)
(***************************************************************************)
\* the texts loaded: one line
HlTexts == Strings(HLChars, MaxInitLen)

HlInit ==
    /\ \E s \in HlTexts : tb = FromIter(s, ViewWidth, MaxHeight)
    /\ rt = RtIdle
    /\ ThreadsInit
    /\ RunIdle

HlRoom(t) == SumLens(t.lines) < MaxHlCells

Hl_insert_char ==
    /\ Alive
    /\ HlRoom(tb)
    /\ \E c \in HLChars : tb' = InsertChar(tb, c)
    /\ rt' = RtIdle
    /\ UNCHANGED <<thvars, edvars>>

Hl_remove_char_before ==
    /\ Alive
    /\ tb' = RemoveCharBefore(tb)
    /\ rt' = RtIdle
    /\ UNCHANGED <<thvars, edvars>>

Highlight_all ==
    /\ Alive
    /\ tb' = HighlightAll(tb)
    /\ rt' = [phase |-> "hl_all", snap |-> tb, n |-> 0, typed |-> 0]
    /\ UNCHANGED <<thvars, edvars>>

Highlight_current_line ==
    /\ Alive
    /\ tb' = HighlightCurrentLine(tb)
    /\ rt' = [phase |-> "hl_line", snap |-> tb,
              n |-> tb.cursor_y + tb.offset_y, typed |-> 0]
    /\ UNCHANGED <<thvars, edvars>>

HlNext ==
    \/ Hl_insert_char
    \/ Hl_remove_char_before
    \/ Move_left
    \/ Move_right
    \/ Highlight_all
    \/ Highlight_current_line

HlSpec == HlInit /\ [][HlNext]_vars

-----------------------------------------------------------------------------
(***************************************************************************)
(* The render worker and the preview controller.                           *)
(***************************************************************************)
\* the sizes used: n columns by n + 1 rows
Sizes == {<<n, n + 1>> : n \in 1..MaxSide}

QuitEvent == [type |-> "Quit", width |-> 0, height |-> 0]
ResizeEvent(w, h) == [type |-> "Resize", width |-> w, height |-> h]

ThreadAlive(w) == w.status \in {"spawned", "hooked", "running"}
ThreadEnded(w) == w.status \in {"stopped", "crashed"}

\* Sender::send on the control channel: Err, and nothing queued, once the
\* worker's Receiver is gone, which is when its thread has ended
SendEvent(w, e) ==
    IF ThreadAlive(w) THEN [w EXCEPT !.events = Append(@, e)] ELSE w

\* AnathemaThreadHandle::close, first statement: _ = event_sender.send(Quit)
CloseSend(w) == [SendEvent(w, QuitEvent) EXCEPT !.quit = TRUE]

\* a faulty variant of the join: it returns whatever the thread does
JoinReturnsAtOnce(w) == TRUE

\* AnathemaThreadHandle::close, second statement: thread_handle.join()
\* returns once the thread has ended
JoinReturns(w) == ThreadEnded(w)

\* a faulty variant of next_event: Quit is not mapped to Event::Stop
NextEventWithoutQuit(w) ==
    IF w.events = <<>>
    THEN IF w.handle THEN "None" ELSE "Stop"
    ELSE IF Head(w.events).type = "Quit" THEN "None" ELSE "Resize"

\* ThreadBackend::next_event: try_recv on the control channel, mapped to the
\* runtime's Event (None when the channel is empty and the sender lives)
NextEvent(w) ==
    IF w.events = <<>>
    THEN IF w.handle THEN "None" ELSE "Stop"
    ELSE IF Head(w.events).type = "Quit" THEN "Stop" ELSE "Resize"

\* ThreadBackend::resize: buffer.resize(new_size)
BackendResize(w, size) == [w EXCEPT !.size = size]

\* a faulty variant of the frame: width and height exchanged
RenderedBufferTransposed(size) ==
    [kind |-> "frame", width |-> size[2], height |-> size[1]]

\* the frame ThreadBackend::render builds: RenderedBuffer::create(size.width,
\* size.height) of the buffer's size
RenderedBuffer(size) == [kind |-> "frame", width |-> size[1], height |-> size[2]]

\* the synthetic frame of the panic hook
PanicFrame(msg) == [kind |-> "panic", msg |-> msg]

\* a faulty variant of the hook: the default hook, which sends nothing
PanicHookSilent(ws, msg) == ws

\* the panic hook: the hook installed last runs, whichever thread panics, and
\* sends on the sender it holds; a failed send is ignored.  With the default
\* hook no frame is sent.
PanicHook(ws, msg) ==
    IF hook # 0 /\ ws[hook].handle
    THEN [ws EXCEPT ![hook].frames = Append(@, PanicFrame(msg)),
                    ![hook].last = "panic",
                    ![hook].panics = @ + 1]
    ELSE ws

\* a panic in worker i: the hook runs, then the thread unwinds and ends,
\* dropping the backend with its buffer and the control channel's Receiver
Crash(i, msg) ==
    workers' = [PanicHook(workers, msg) EXCEPT ![i].status = "crashed",
                                               ![i].events = <<>>,
                                               ![i].size = <<0, 0>>,
                                               ![i].applied = <<0, 0>>]

NextId == Cardinality({i \in 1..MaxWorkers : workers[i].status # "none"}) + 1

(* Editor::run_code, up to the join: take the handle out of THREAD_HANDLE  *)
(* and close it.                                                           *)
RunCodeTake ==
    /\ main.pc = "idle"
    /\ IF slot # 0
       THEN /\ workers' = [workers EXCEPT ![slot] = CloseSend(@)]
            /\ main' = [pc |-> "join", id |-> slot]
       ELSE /\ main' = [pc |-> "compile", id |-> 0]
            /\ UNCHANGED workers
    /\ slot' = 0
    /\ UNCHANGED <<hook, tb, rt, edvars>>

(* close() returns: the join is over and the handle is dropped, and with it *)
(* the frame Receiver and the control Sender.                              *)
RunCodeJoin ==
    /\ main.pc = "join"
    /\ JoinReturns(workers[main.id])
    /\ workers' = [workers EXCEPT ![main.id].handle = FALSE,
                                  ![main.id].frames = <<>>]
    /\ main' = [pc |-> "compile", id |-> 0]
    /\ UNCHANGED <<slot, hook, tb, rt, edvars>>

(* Editor::run_code after the close: compile, validate, write the file and *)
(* launch_threaded_anathema; only when all succeed is a worker spawned and *)
(* its handle put into THREAD_HANDLE.                                      *)
RunCodeStart ==
    /\ main.pc = "compile"
    /\ main' = MainIdle
    /\ \E outcome \in {"compile_err", "validate_err", "write_err", "spawn_err", "ok"} :
          IF outcome = "ok" /\ NextId <= MaxWorkers
          THEN \E size \in Sizes :
                  /\ workers' = [workers EXCEPT ![NextId] =
                                    [NoWorker EXCEPT !.status = "spawned",
                                                     !.size = size,
                                                     !.applied = size,
                                                     !.handle = TRUE]]
                  /\ slot' = NextId
          ELSE /\ outcome # "ok"
               /\ UNCHANGED <<workers, slot>>
    /\ UNCHANGED <<hook, tb, rt, edvars>>

(* The controller forwards a resize: AnathemaThreadHandle::resize on the   *)
(* handle in THREAD_HANDLE.                                                *)
CtlResize ==
    /\ main.pc = "idle"
    /\ slot # 0
    /\ Len(workers[slot].events) < MaxEvents
    /\ \E size \in Sizes :
          workers' = [workers EXCEPT ![slot] =
                         SendEvent(@, ResizeEvent(size[1], size[2]))]
    /\ UNCHANGED <<slot, main, hook, tb, rt, edvars>>

\* whether a Sender of worker w's frame channel still exists: the backend's,
\* while the thread lives, or the clone the installed panic hook holds
FrameSenderLives(i) == ThreadAlive(workers[i]) \/ hook = i

\* what AnathemaThreadHandle::get_buffer returns: the oldest frame in the
\* channel, Ok(None) when it is empty and a Sender lives, else Err
GetBufferResult(i) ==
    IF workers[i].frames # <<>> THEN Head(workers[i].frames)
    ELSE IF FrameSenderLives(i) THEN "Ok(None)" ELSE "Err"

\* a faulty variant of the poll: it takes the newest frame out of the channel
GetBufferNewest(i) ==
    LET w == workers[i] IN
    IF w.frames # <<>>
    THEN [w EXCEPT !.frames = SubSeq(@, 1, Len(@) - 1), !.late = @ \/ w.quit]
    ELSE w

\* the channel after that try_recv
GetBuffer(i) ==
    LET w == workers[i] IN
    IF w.frames # <<>>
    THEN [w EXCEPT !.frames = Tail(@), !.late = @ \/ w.quit]
    ELSE w

(* The controller polls the handle in THREAD_HANDLE; a poll that finds no  *)
(* frame changes nothing.                                                  *)
CtlGetBuffer ==
    /\ main.pc = "idle"
    /\ slot # 0
    /\ workers[slot].frames # <<>>
    /\ workers' = [workers EXCEPT ![slot] = GetBuffer(slot)]
    /\ UNCHANGED <<slot, main, hook, tb, rt, edvars>>

(* The worker's closure: set the panic hook ...                            *)
WorkerSetHook(i) ==
    /\ workers[i].status = "spawned"
    /\ hook' = i
    /\ workers' = [workers EXCEPT ![i].status = "hooked", ![i].hooked = TRUE]
    /\ UNCHANGED <<slot, main, tb, rt, edvars>>

(* ... then build the document, the backend and the runtime, and run it.   *)
WorkerBuild(i) ==
    /\ workers[i].status = "hooked"
    /\ workers' = [workers EXCEPT ![i].status = "running"]
    /\ UNCHANGED <<slot, main, hook, tb, rt, edvars>>

(* One poll of the runtime's loop: next_event, and what the runtime does   *)
(* with the event: it leaves run() on Stop and resizes the backend on      *)
(* Resize.                                                                 *)
RuntimeDispatch(w) ==
    LET ev == NextEvent(w) IN
    IF ev = "Stop"
    THEN \* run() returns and the closure ends, dropping the backend
         [w EXCEPT !.status = "stopped", !.events = <<>>,
                   !.size = <<0, 0>>, !.applied = <<0, 0>>]
    ELSE IF ev = "Resize"
    THEN LET size == <<Head(w.events).width, Head(w.events).height>>
         IN  [BackendResize(w, size) EXCEPT !.events = Tail(@), !.applied = size]
    ELSE w

WorkerNextEvent(i) ==
    /\ workers[i].status = "running"
    /\ NextEvent(workers[i]) # "None"
    /\ workers' = [workers EXCEPT ![i] = RuntimeDispatch(@)]
    /\ UNCHANGED <<slot, main, hook, tb, rt, edvars>>

(* One render pass: ThreadBackend::render sends the frame, and panics when *)
(* the send fails.                                                         *)
WorkerRender(i) ==
    /\ workers[i].status = "running"
    /\ Len(workers[i].frames) < MaxFrames
    /\ IF workers[i].handle
       THEN workers' = [workers EXCEPT
                           ![i].frames = Append(@, RenderedBuffer(workers[i].size)),
                           ![i].last = "frame"]
       ELSE Crash(i, "failed to send updates")
    /\ UNCHANGED <<slot, main, hook, tb, rt, edvars>>

(* Any other panic in the worker once its hook is set: the expect on the   *)
(* runtime builder, or a fault inside the rendering engine.                *)
WorkerFault(i) ==
    /\ workers[i].status \in {"hooked", "running"}
    /\ Crash(i, IF workers[i].status = "hooked"
                THEN "we should never fail to compile the document"
                ELSE "fault")
    /\ UNCHANGED <<slot, main, hook, tb, rt, edvars>>

ThInit ==
    /\ ThreadsInit
    /\ tb = New(ViewWidth, 1)
    /\ rt = RtIdle
    /\ RunIdle

ThNext ==
    \/ RunCodeTake
    \/ RunCodeJoin
    \/ RunCodeStart
    \/ CtlResize
    \/ CtlGetBuffer
    \/ \E i \in 1..MaxWorkers : WorkerSetHook(i)
    \/ \E i \in 1..MaxWorkers : WorkerBuild(i)
    \/ \E i \in 1..MaxWorkers : WorkerNextEvent(i)
    \/ \E i \in 1..MaxWorkers : WorkerRender(i)
    \/ \E i \in 1..MaxWorkers : WorkerFault(i)

ThreadSpec == ThInit /\ [][ThNext]_vars

\* the worker thread is scheduled and polls its events; a join that can
\* return does
ThreadFairSpec ==
    /\ ThreadSpec
    /\ WF_vars(RunCodeJoin)
    /\ \A i \in 1..MaxWorkers :
          /\ WF_vars(WorkerSetHook(i))
          /\ WF_vars(WorkerBuild(i))
          /\ WF_vars(WorkerNextEvent(i))

-----------------------------------------------------------------------------
(***************************************************************************)
(* The same threads up to the end of the UI thread.  THREAD_HANDLE is a    *)
(* thread-local of the UI thread: when that thread ends with a preview     *)
(* running, the handle in it is dropped without close(), and with it the   *)
(* frame Receiver and the control Sender, while the worker still runs.     *)
(***************************************************************************)
MainExit ==
    /\ main.pc = "idle"
    /\ main' = [pc |-> "exited", id |-> 0]
    /\ IF slot # 0
       THEN workers' = [workers EXCEPT ![slot].handle = FALSE,
                                       ![slot].frames = <<>>]
       ELSE UNCHANGED workers
    /\ slot' = 0
    /\ UNCHANGED <<hook, tb, rt, edvars>>

ExitNext == ThNext \/ MainExit

ExitSpec == ThInit /\ [][ExitNext]_vars

-----------------------------------------------------------------------------
(***************************************************************************)
(* The buffer in which one line of a template is typed, character by       *)
(* character at the end of the line, and highlighted at any time.          *)
(***************************************************************************)
\* the line typed:  text "hello" // note
ExampleText ==
    <<"t", "e", "x", "t", " ", "\"", "h", "e", "l", "l", "o", "\"", " ",
      "/", "/", " ", "n", "o", "t", "e">>

\* the characters of a line of cells
LineText(line) == [i \in 1..Len(line) |-> line[i].c]

ExInit ==
    /\ tb = New(ViewWidth, MaxHeight)
    /\ rt = RtIdle
    /\ ThreadsInit
    /\ RunIdle

\* the cursor is at the end of the one line, which is a beginning of the
\* text to type
AtEndOfExample ==
    /\ Len(tb.lines) = 1
    /\ tb.offset_y + tb.cursor_y = 0
    /\ tb.cursor_x = Len(tb.lines[1])
    /\ Len(tb.lines[1]) <= Len(ExampleText)
    /\ LineText(tb.lines[1]) = SubSeq(ExampleText, 1, Len(tb.lines[1]))

Ex_insert_char ==
    /\ Alive
    /\ AtEndOfExample
    /\ Len(tb.lines[1]) < Len(ExampleText)
    /\ tb' = InsertChar(tb, ExampleText[Len(tb.lines[1]) + 1])
    /\ rt' = RtIdle
    /\ UNCHANGED <<thvars, edvars>>

ExNext ==
    \/ Ex_insert_char
    \/ Hl_remove_char_before
    \/ Highlight_all
    \/ Highlight_current_line

ExSpec == ExInit /\ [][ExNext]_vars

-----------------------------------------------------------------------------
(***************************************************************************)
(* validate_blueprint applied to the blueprints a compile may return.      *)
(***************************************************************************)
ValInit ==
    /\ \E bp \in BlueprintsUpTo(MaxNodes) :
          val = [NoValidation EXCEPT !.blueprint = bp]
    /\ ed = <<>>
    /\ tb = New(ViewWidth, 1)
    /\ rt = RtIdle
    /\ ThreadsInit

(* run_code's call validate_blueprint(&blueprint)                          *)
Validate_blueprint ==
    /\ ~val.done
    /\ val' = [val EXCEPT !.done = TRUE,
                          !.result = ValidateBlueprint(val.blueprint)]
    /\ UNCHANGED <<ed, tbvars, thvars>>

ValNext == Validate_blueprint

ValSpec == ValInit /\ [][ValNext]_vars

-----------------------------------------------------------------------------
(***************************************************************************)
(* The editor: typing, and run_code from the document to the saved file    *)
(* and the launched worker.  The UI thread runs each handler to            *)
(* completion, so run_code is one step; the worker it launches is kept     *)
(* only as the handle in THREAD_HANDLE.                                    *)
(***************************************************************************)
EdInit ==
    /\ \/ ed = EditorNew(FALSE, <<>>)
       \/ \E text \in InitialTexts : ed = EditorNew(TRUE, text)
    /\ val = <<>>
    /\ tb = New(ViewWidth, 1)
    /\ rt = RtIdle
    /\ ThreadsInit

\* on_key, KeyCode::Char(c), with the viewport height of the editor's state
KeyChar(e, c, height) ==
    LET row == e.offset_y + e.cursor_y IN
    IF row < Len(e.lines)
    THEN LET line == e.lines[row + 1] IN
         IF e.cursor_x < Len(line)
         THEN [e EXCEPT !.lines[row + 1] = InsertAt(line, e.cursor_x, c),
                        !.cursor_x = e.cursor_x + 1]
         ELSE [e EXCEPT !.lines[row + 1] = Append(line, c),
                        !.cursor_x = Len(line) + 1]
    ELSE LET lines == Append(e.lines, <<c>>)
             cy1 == e.cursor_y + 1
             oy1 == IF cy1 + e.offset_y >= Len(lines) /\ e.offset_y >= Len(lines)
                    THEN SatSub(Len(lines), 1) ELSE e.offset_y
             cy2 == IF cy1 + e.offset_y >= Len(lines)
                    THEN Len(lines) - oy1 - 1 ELSE cy1
             scroll == cy2 + oy1 >= height
         IN  [e EXCEPT !.lines = lines,
                       !.cursor_x = 1,
                       !.offset_y = IF scroll THEN cy2 + oy1 - height + 1 ELSE oy1,
                       !.cursor_y = IF scroll THEN height - 1 ELSE cy2]

Key_char ==
    /\ SumLens(ed.lines) < MaxCells
    /\ \E c \in TBChars : ed' = KeyChar(ed, c, MaxHeight)
    /\ UNCHANGED <<val, tbvars, thvars>>

\* a faulty variant of the close: the old handle stays in THREAD_HANDLE
HandleKept(e) == e

\* if let Some(handle) = THREAD_HANDLE.take() { handle.close() }: the slot
\* is emptied and close() returns when the worker is joined
TakeAndClose(e) == [e EXCEPT !.handle = FALSE, !.running = FALSE]

\* std::fs::write(file, string.as_bytes()) returning Ok
FsWrite(e, string) == [e EXCEPT !.disk = string]

\* run_code failing with the error err: ERROR.replace and publish("error")
RunFails(e, outcome, err) ==
    [e EXCEPT !.error = err, !.published = <<"error">>, !.outcome = outcome]

(* Editor::run_code.  What Document::compile, std::fs::write and the spawn *)
(* in launch_threaded_anathema return is not the editor's to decide: each  *)
(* may fail, and a compile that succeeds returns some blueprint, for which  *)
(* validate_blueprint returns one of ValidationResults.  A write that      *)
(* fails may have emptied the file.                                        *)
Run_code ==
    LET string == TemplateString(ed.lines)
        e0 == [TakeAndClose(ed) EXCEPT !.should_rerender = 3,
                                       !.published = <<>>,
                                       !.snap = EdSnap(ed)]
    IN  /\ \E compiles, writes, truncates, spawns \in BOOLEAN :
           \E validated \in ValidationResults :
              ed' = IF ~compiles THEN RunFails(e0, "compile_err", CompileError)
                    ELSE IF ~validated.ok
                    THEN RunFails(e0, "validate_err", ValidateError(validated.ident))
                    ELSE IF e0.file /\ ~writes
                    THEN RunFails([e0 EXCEPT !.disk = IF truncates THEN <<>> ELSE @],
                                  "write_err", WriteError)
                    ELSE LET e1 == IF e0.file THEN FsWrite(e0, string) ELSE e0 IN
                         IF ~spawns THEN RunFails(e1, "spawn_err", LaunchError)
                         ELSE [e1 EXCEPT !.published = <<"run">>,
                                         !.handle = TRUE,
                                         !.running = TRUE,
                                         !.outcome = "ok"]
        /\ UNCHANGED <<val, tbvars, thvars>>

EdNext == Key_char \/ Run_code

EdSpec == EdInit /\ [][EdNext]_vars

-----------------------------------------------------------------------------
(***************************************************************************)
(* Properties of the TextBuffer, stated over Spec.                         *)
(***************************************************************************)
\* the cursor's absolute row
Row == tb.offset_y + tb.cursor_y

\* the cursor of t is on an existing line, at a column within it
ValidCursor(t) ==
    /\ t.offset_y + t.cursor_y < Len(t.lines)
    /\ t.cursor_x <= LineLen(t, t.offset_y + t.cursor_y)

\* C1: in every reachable state the cursor column is at most the length of
\* the line at index offset_y + cursor_y.
ColumnInvariant == tb.cursor_x <= LineLen(tb, Row)

\* C2: no operation panics: in every reachable state the last call returned
\* without a panic.
NoOperationPanics == tb.panic = ""

\* C7: once n characters other than a newline were inserted and
\* remove_char_before was then called n times, the lines and the cursor column
\* are those of the state before the first insertion.
InsertBackspaceRoundTrip ==
    rt.phase = "ins_done" =>
        /\ tb.lines = rt.snap.lines
        /\ tb.cursor_x = rt.snap.cursor_x

RowAndOffsetKept(t) ==
    \/ t.height = 1
    \/ t.offset_y + t.cursor_y + 1 < t.height
    \/ t.cursor_y + 2 = t.height

RowInvariant == 0 <= tb.cursor_y /\ tb.cursor_y < tb.height

\* the view is scrolled and the cursor is on the bottom row of a viewport of
\* more than one row
CursorOnBottomRowScrolled ==
    /\ tb.height > 1
    /\ tb.offset_y > 0
    /\ tb.cursor_y = tb.height - 1
    /\ tb.panic = ""

\* C11: in every reachable state the cursor's absolute row is at most the
\* line count: offset_y + cursor_y <= lines.len().
AbsoluteRowInvariant == Row <= Len(tb.lines)

\* C12: the document is never empty: in every reachable state
\* lines.len() >= 1.
DocumentNeverEmpty == Len(tb.lines) >= 1

\* a newline split the only line in two and the backspace after it merged
\* the two into one line again
MergedToOneLine ==
    /\ rt.phase = "nl_done"
    /\ Len(rt.snap.lines) = 1
    /\ Len(tb.lines) = 1

(***************************************************************************)
(* Properties of the highlighter, stated over HlSpec.                      *)
(***************************************************************************)
\* the cells of a line as From<char> makes them: no tag
Untagged(line) == [i \in 1..Len(line) |-> Cell(line[i].c)]

\* C9: the line a highlighter call leaves is the one highlight_line makes of
\* the same characters without tags, whatever tags the cells carried, and
\* highlight_line applied to it again changes nothing.
HighlightIdempotent ==
    /\ rt.phase = "hl_line" /\ rt.n < Len(rt.snap.lines) =>
          LET before == rt.snap.lines[rt.n + 1]
              after == tb.lines[rt.n + 1]
          IN  /\ after = HighlightLine(Untagged(before))
              /\ HighlightLine(after) = after
    /\ rt.phase = "hl_all" =>
          \A i \in 1..Len(tb.lines) :
              /\ tb.lines[i] = HighlightLine(Untagged(rt.snap.lines[i]))
              /\ HighlightLine(tb.lines[i]) = tb.lines[i]

\* highlight_current_line ran on a line one of whose cells carried a tag that
\* the line's characters no longer give it
StaleTagsRehighlighted ==
    /\ rt.phase = "hl_line"
    /\ rt.n < Len(rt.snap.lines)
    /\ \E i \in 1..Len(rt.snap.lines[rt.n + 1]) :
          /\ rt.snap.lines[rt.n + 1][i].s # "None"
          /\ tb.lines[rt.n + 1][i].s = "None"

(***************************************************************************)
(* Properties of the worker and the controller, stated over ThreadSpec and *)
(* ThreadFairSpec.                                                         *)
(***************************************************************************)
AliveWorkers == {i \in 1..MaxWorkers : ThreadAlive(workers[i])}

\* C3: at most one worker thread is alive; the worker whose handle is in
\* THREAD_HANDLE is the only one that can be; none is alive when run_code
\* has closed the old handle and not yet launched; and a worker is alive
\* only when every worker launched before it has terminated.
OneWorkerAlive ==
    /\ Cardinality(AliveWorkers) <= 1
    /\ slot # 0 => AliveWorkers \subseteq {slot}
    /\ main.pc = "compile" => AliveWorkers = {}
    /\ \A i \in AliveWorkers : \A j \in 1..(i - 1) : ThreadEnded(workers[j])

\* a second preview runs, started while the first was active: the first was
\* sent Quit and has stopped
SecondPreviewRunning ==
    /\ slot = 2
    /\ workers[2].status = "running"
    /\ workers[1].quit
    /\ workers[1].status = "stopped"

\* C4: when close() has sent Quit and waits in join, the worker's thread
\* eventually ends and the join returns, whether the worker was running or
\* had ended before; and no frame of a worker is taken by the controller
\* after Quit was sent to it.
QuitTerminatesWorker ==
    /\ \A i \in 1..MaxWorkers :
          (main.pc = "join" /\ main.id = i)
              ~> (main.pc = "compile" /\ ThreadEnded(workers[i])
                                      /\ ~workers[i].handle)
    /\ [](\A i \in 1..MaxWorkers : ~workers[i].late)

\* close() has returned for a worker that left its loop on Quit while
\* frames of it were still in the channel
ClosedAfterQuit ==
    /\ main.pc = "compile"
    /\ \E i \in 1..MaxWorkers :
          /\ workers[i].quit
          /\ workers[i].status = "stopped"
          /\ workers[i].last = "frame"
          /\ ~workers[i].handle

ResizeAppliesToFrames ==
    /\ [](\A i \in 1..MaxWorkers :
            workers[i].status = "running" => workers[i].size = workers[i].applied)
    /\ [][\A i \in 1..MaxWorkers :
            /\ WorkerNextEvent(i) /\ NextEvent(workers[i]) = "Resize" =>
                  /\ workers'[i].status = "running"
                  /\ workers'[i].size = <<Head(workers[i].events).width,
                                          Head(workers[i].events).height>>
            /\ WorkerRender(i) /\ workers[i].handle =>
                  workers'[i].frames =
                      Append(workers[i].frames,
                             [kind |-> "frame",
                              width |-> workers[i].applied[1],
                              height |-> workers[i].applied[2]])]_vars

\* a running worker has sent a frame, dequeued a Resize to another size and
\* sent a frame of the new size
ResizedFrameSent ==
    \E i \in 1..MaxWorkers :
        /\ workers[i].status = "running"
        /\ Len(workers[i].frames) = 2
        /\ workers[i].frames[1].kind = "frame"
        /\ workers[i].frames[2].kind = "frame"
        /\ workers[i].frames[1].width # workers[i].frames[2].width
        /\ workers[i].frames[2].width = workers[i].applied[1]
        /\ workers[i].frames[2].height = workers[i].applied[2]
-----------------------------------------------------------------------------
(***************************************************************************)
(* Properties of the validation, stated over ValSpec.                      *)
(***************************************************************************)
\* the blueprints held by a sequence of bodies
RECURSIVE Held(_)
Held(bodies) == IF bodies = <<>> THEN <<>> ELSE Head(bodies) \o Held(Tail(bodies))

\* the nodes of a blueprint tree: the blueprint and the nodes of every
\* blueprint in its body (the children of a widget, the body of a component
\* or a loop, the if-body) and in the bodies of its else nodes
RECURSIVE Nodes(_)
Nodes(bp) ==
    LET below == bp.body \o Held(bp.elses)
    IN  {bp} \cup UNION {Nodes(below[k]) : k \in 1..Len(below)}

\* how many nodes the tree has
RECURSIVE NodeCount(_), NodeCountAll(_)
NodeCountAll(bps) ==
    IF bps = <<>> THEN 0 ELSE NodeCount(Head(bps)) + NodeCountAll(Tail(bps))

NodeCount(bp) == 1 + NodeCountAll(bp.body \o Held(bp.elses))

\* the tags of the widget nodes of the tree
WidgetIdents(bp) == {n.ident : n \in {m \in Nodes(bp) : m.kind = "Single"}}

\* C13: validate_blueprint accepts a blueprint if and only if the tag of
\* every widget node is one of the 16 names text, span, border, align,
\* vstack, hstack, zstack, expand, spacer, position, overflow, canvas,
\* container, padding, row, column (the names of VALID_WIDGETS).
ValidationWhitelist ==
    val.done => (val.result.ok <=> WidgetIdents(val.blueprint) \subseteq VALID_WIDGETS)

\* C14: validate_blueprint returns for every blueprint tree; when it
\* returns Ok it has examined every node of the tree; it returns Err
\* whenever a widget node at any depth has a tag outside the 16 names; and
\* the tag its Err names is a tag of the tree outside the 16 names.
ValidationTraversal ==
    val.done =>
        /\ val.result.ok => val.result.examined = NodeCount(val.blueprint)
        /\ ~(WidgetIdents(val.blueprint) \subseteq VALID_WIDGETS) => ~val.result.ok
        /\ ~val.result.ok =>
              val.result.ident \in WidgetIdents(val.blueprint) \ VALID_WIDGETS

\* the same traversal measured against the names the code accepts: Ok after
\* every node was examined and none was outside VALID_COMPONENTS, else Err
\* naming a tag of the tree outside VALID_COMPONENTS
TraversalOverValidComponents ==
    val.done =>
        IF WidgetIdents(val.blueprint) \subseteq VALID_COMPONENTS
        THEN val.result.ok /\ val.result.examined = NodeCount(val.blueprint)
        ELSE /\ ~val.result.ok
             /\ val.result.ident \in WidgetIdents(val.blueprint) \ VALID_COMPONENTS
-----------------------------------------------------------------------------
(***************************************************************************)
(* Properties of run_code, stated over EdSpec.                             *)
(***************************************************************************)
\* the outcomes of run_code that start no worker
FailedStarts == {"compile_err", "validate_err", "write_err", "spawn_err"}

\* C18: a run_code call in which the compile or the validation fails leaves
\* the document lines, the cursor and the scroll offset as they were and
\* writes nothing to the backing file; with these and with a failed write,
\* THREAD_HANDLE is empty afterwards and the worker it held before has been
\* closed and joined, none being launched; ERROR holds the error text and
\* just the event "error" was published.
FailedStartHarmless ==
    /\ [][Run_code /\ ed'.outcome \in {"compile_err", "validate_err", "write_err"} =>
            /\ ed'.lines = ed.lines
            /\ ed'.cursor_x = ed.cursor_x
            /\ ed'.cursor_y = ed.cursor_y
            /\ ed'.offset_y = ed.offset_y
            /\ ed'.outcome # "write_err" => ed'.disk = ed.disk
            /\ ~ed'.handle /\ ~ed'.running
            /\ ed'.published = <<"error">>
            /\ ed'.error = CASE ed'.outcome = "compile_err" -> CompileError
                             [] ed'.outcome = "validate_err" ->
                                    ValidateError(ed'.error.ident)
                             [] ed'.outcome = "write_err" -> WriteError]_vars
    /\ [](ed.outcome \in {"compile_err", "validate_err", "write_err"} =>
            /\ ~ed.handle /\ ~ed.running
            /\ ed.error.msg # ""
            /\ ed.outcome = "validate_err" =>
                  ed.error.ident \in WidgetTags \ VALID_COMPONENTS)

\* a preview was running, the document was edited and run again, and the
\* validation rejected it: the old worker is gone and none was started
FailedAfterPreview ==
    /\ ed.outcome = "validate_err"
    /\ ed.snap.handle
    /\ ed.snap.lines # <<>>
    /\ ed.snap.cursor_x > 0
    /\ ~ed.handle
    /\ ed.error = ValidateError(<<"f", "r", "o", "b", "n", "i", "c", "a", "t", "e">>)

\* the lines joined by '\n', nothing after the last
RECURSIVE JoinLines(_)
JoinLines(lines) ==
    IF lines = <<>> THEN <<>>
    ELSE IF Len(lines) = 1 THEN lines[1]
    ELSE Head(lines) \o <<NL>> \o JoinLines(Tail(lines))

\* C19: after a run_code call whose compile and validation succeeded and
\* whose write returned Ok, the backing file holds exactly the document's
\* lines joined by '\n', for every document, the empty one included.
VerbatimSave ==
    ed.file /\ ed.outcome \in {"ok", "spawn_err"} =>
        ed.disk = JoinLines(ed.snap.lines)
-----------------------------------------------------------------------------
(***************************************************************************)
(* Properties of the two channels, stated over ThreadSpec.                 *)
(***************************************************************************)
\* C15: a poll of the controller returns at once with at most one frame,
\* and when frames are pending it returns the one published last and drops
\* the older ones, so that nothing older is left for a later poll.
LatestWinsPolling ==
    [][CtlGetBuffer =>
          /\ GetBufferResult(slot) = workers[slot].frames[Len(workers[slot].frames)]
          /\ workers'[slot].frames = <<>>]_vars
\* C16: the worker dequeues the control messages in the order the controller
\* sent them, one per next_event poll: a send appends to the channel, a poll
\* takes the oldest message and a Resize taken is the one applied; a worker
\* that has observed Quit or the disconnection has stopped with nothing left
\* to process.  The frames reach the controller in the order the worker
\* rendered them, each once: a render pass appends one frame and get_buffer
\* returns and removes the oldest.
PerChannelFifo ==
    /\ [][\A i \in 1..MaxWorkers :
            LET w == workers[i] IN
            /\ CtlResize /\ slot = i /\ ThreadAlive(w) =>
                  /\ Len(workers'[i].events) = Len(w.events) + 1
                  /\ SubSeq(workers'[i].events, 1, Len(w.events)) = w.events
                  /\ workers'[i].events[Len(w.events) + 1].type = "Resize"
            /\ WorkerNextEvent(i) /\ w.events # <<>> /\ Head(w.events).type = "Resize" =>
                  /\ workers'[i].events = Tail(w.events)
                  /\ workers'[i].applied = <<Head(w.events).width, Head(w.events).height>>
            /\ WorkerNextEvent(i) /\ (w.events = <<>> \/ Head(w.events).type = "Quit") =>
                  /\ workers'[i].status = "stopped"
                  /\ workers'[i].events = <<>>
            /\ ThreadEnded(w) =>
                  /\ ThreadEnded(workers'[i])
                  /\ workers'[i].events = <<>>
                  /\ workers'[i].applied = w.applied
            /\ WorkerRender(i) /\ w.handle =>
                  /\ Len(workers'[i].frames) = Len(w.frames) + 1
                  /\ SubSeq(workers'[i].frames, 1, Len(w.frames)) = w.frames
            /\ CtlGetBuffer /\ slot = i =>
                  /\ GetBufferResult(i) = Head(w.frames)
                  /\ workers'[i].frames = Tail(w.frames)]_vars
    /\ [](\A i \in 1..MaxWorkers :
            \A k \in 1..Len(workers[i].events) :
                workers[i].events[k].type = "Quit" => k = Len(workers[i].events))

\* the controller sent two Resizes of different sizes; the worker rendered,
\* dequeued the first of them and rendered again, and the second is still
\* in the channel
ResizesDequeuedInOrder ==
    \E i \in 1..MaxWorkers :
        LET w == workers[i] IN
        /\ w.status = "running"
        /\ Len(w.events) = 1
        /\ w.events[1].type = "Resize"
        /\ w.events[1].width # w.applied[1]
        /\ Len(w.frames) = 2
        /\ w.frames[1].width # w.applied[1]
        /\ w.frames[2].width = w.applied[1]
\* C17: a disconnected channel stops the worker as Quit does, in both
\* directions: a poll that finds the control channel empty with its sender
\* gone ends the worker as stopped, and a render pass whose send fails
\* because the frame receiver is gone ends it as stopped too, without a
\* panic.  Stated over ExitSpec.
DisconnectionIsStop ==
    [][\A i \in 1..MaxWorkers :
          /\ WorkerNextEvent(i) /\ workers[i].events = <<>> =>
                workers'[i].status = "stopped"
          /\ WorkerRender(i) /\ ~workers[i].handle =>
                workers'[i].status = "stopped"]_vars
-----------------------------------------------------------------------------
(***************************************************************************)
(* The highlighting of the example line, stated over ExSpec.               *)
(***************************************************************************)
\* the tag of the cell at 1-based position i of the example line: text is
\* cells 1..4, "hello" with its quotes cells 6..12, and the first / is
\* cell 14
ExampleTag(i) ==
    IF i \in 1..4 THEN "Widget"
    ELSE IF i \in 6..12 THEN "String"
    ELSE IF i >= 14 THEN "Comment"
    ELSE "None"

\* C20: when the highlighter has run on the line  text "hello" // note , the
\* four cells of text are tagged Widget, the seven cells of "hello" with
\* both quotes String, every cell from the first / to the end of the line
\* Comment, and the two other cells (the blanks before the quote and before
\* the comment) carry no tag.
ExampleHighlighted ==
    /\ rt.phase \in {"hl_line", "hl_all"}
    /\ Len(tb.lines) = 1
    /\ LineText(tb.lines[1]) = ExampleText
    => \A i \in 1..Len(ExampleText) : tb.lines[1][i].s = ExampleTag(i)

\* the whole line was typed after an earlier highlighter call had tagged the
\* beginning, and highlight_current_line has run on it
ExampleTypedThenHighlighted ==
    /\ rt.phase = "hl_line"
    /\ LineText(tb.lines[1]) = ExampleText
    /\ rt.snap.lines[1][1].s = "Widget"
    /\ rt.snap.lines[1][Len(ExampleText)].s = "None"
    /\ tb.lines[1][Len(ExampleText)].s = "Comment"

(***************************************************************************)
(* The contracts of the single editing operations.  They are stated on the *)
(* steps of Spec: tb is the buffer an operation is applied to and tb' the  *)
(* buffer it leaves.                                                       *)
(***************************************************************************)
\* the cursor is on an existing line
OnLine(t) == t.cursor_y + t.offset_y < Len(t.lines)

AbsRow(t) == t.cursor_y + t.offset_y

\* row r is one of the height rows shown when the view starts at line o
Visible(r, o, height) == o <= r /\ r < o + height

\* the scroll offset of v is the one of t, moved no further than row r needs
ScrolledMinimally(t, v, r) ==
    IF Visible(r, t.offset_y, t.height) THEN v.offset_y = t.offset_y
    ELSE IF r < t.offset_y THEN v.offset_y = r
    ELSE v.offset_y = r - t.height + 1

StepMotion == Move_up \/ Move_down \/ Move_left \/ Move_right

\* C21: a move_up, move_down, move_left or move_right leaves offset_y
\* unchanged when the row the cursor arrives on is visible under the
\* current offset_y, and otherwise moves offset_y only as far as that row
\* needs to become visible.
ScrollMinimality ==
    [][(StepMotion /\ OnLine(tb) /\ tb'.panic = "")
          => ScrolledMinimally(tb, tb', AbsRow(tb'))]_vars


\* the view row the cursor has after an insertion, before any scrolling:
\* a line break moves it one row down, any other character leaves it
RowAfterInsertion == tb.cursor_y + (Len(tb'.lines) - Len(tb.lines))

\* C22: when the view row of the cursor after an insert_char is at or past
\* the viewport height, offset_y grows by exactly the overflow
\* row - (height - 1) and cursor_y becomes height - 1; when that row is
\* inside the viewport, offset_y is unchanged.
InsertionOverflowScrolling ==
    [][(Insert_char /\ OnLine(tb) /\ tb'.panic = "")
          => IF RowAfterInsertion >= tb.height
             THEN /\ tb'.offset_y
                        = tb.offset_y + (RowAfterInsertion - (tb.height - 1))
                  /\ tb'.cursor_y = tb.height - 1
             ELSE tb'.offset_y = tb.offset_y]_vars


\* the observed call was insert_char('\n') with the cursor on an existing
\* line, at a column within it
SplitObserved ==
    /\ rt.phase = "nl"
    /\ OnLine(rt.snap)
    /\ rt.snap.cursor_x <= Len(rt.snap.lines[AbsRow(rt.snap) + 1])

\* C23: insert_char('\n') at column c <= length of the existing line L at
\* absolute row r leaves line r equal to the first c cells of L, makes line
\* r + 1 the remaining cells of L, keeps every other line unchanged and in
\* order (one line more), and puts the cursor at column 0 of row r + 1.
LineSplit ==
    SplitObserved =>
        LET r == AbsRow(rt.snap)
            c == rt.snap.cursor_x
            old == rt.snap.lines
            L == old[r + 1]
        IN  /\ tb.panic = ""
            /\ Len(tb.lines) = Len(old) + 1
            /\ tb.lines[r + 1] = SubSeq(L, 1, c)
            /\ tb.lines[r + 2] = SubSeq(L, c + 1, Len(L))
            /\ \A i \in 1..Len(old) :
                  /\ i < r + 1 => tb.lines[i] = old[i]
                  /\ i > r + 1 => tb.lines[i + 1] = old[i]
            /\ tb.cursor_x = 0
            /\ AbsRow(tb) = r + 1

\* a line was split between two of its cells, with a line after it
SplitInsideLine ==
    /\ SplitObserved
    /\ tb.panic = ""
    /\ AbsRow(rt.snap) + 1 < Len(rt.snap.lines)
    /\ tb.lines[AbsRow(rt.snap) + 1] # <<>>
    /\ tb.lines[AbsRow(rt.snap) + 2] # <<>>


\* the cursor is at column 0 of an existing line that has a line before it
AtLineStart(t) == OnLine(t) /\ t.cursor_x = 0 /\ AbsRow(t) > 0

\* v is t after the line under the cursor was joined to the line before it
JoinedWithPrevious(t, v) ==
    LET r == AbsRow(t) IN
    /\ v.panic = ""
    /\ Len(v.lines) = Len(t.lines) - 1
    /\ v.lines[r] = t.lines[r] \o t.lines[r + 1]
    /\ \A i \in 1..Len(t.lines) :
          /\ i < r => v.lines[i] = t.lines[i]
          /\ i > r + 1 => v.lines[i - 1] = t.lines[i]
    /\ v.cursor_x = Len(t.lines[r])
    /\ IF t.cursor_y = 0
       THEN v.offset_y = t.offset_y - 1 /\ v.cursor_y = 0
       ELSE v.cursor_y = t.cursor_y - 1 /\ v.offset_y = t.offset_y

\* C24: remove_char_before at column 0 of absolute row r > 0 replaces lines
\* r - 1 and r by their concatenation (one line fewer, the others
\* unchanged), sets cursor_x to the original length of line r - 1 and
\* decrements the absolute row: offset_y when cursor_y = 0, cursor_y
\* otherwise; at absolute row 0, column 0 it changes nothing.
BackspaceAtLineStart ==
    [][Remove_char_before
          => /\ AtLineStart(tb) => JoinedWithPrevious(tb, tb')
             /\ (AbsRow(tb) = 0 /\ tb.cursor_x = 0) => tb' = tb]_vars

\* a backspace right after a line break in a one-row viewport: it was
\* applied at column 0 with cursor_y = 0, joined two non-empty parts and
\* took the scroll offset back
JoinedByOffset ==
    /\ rt.phase = "nl_done"
    /\ OnLine(rt.snap)
    /\ rt.snap.height = 1
    /\ rt.snap.cursor_x = 1
    /\ tb.panic = ""
    /\ tb.lines = rt.snap.lines
    /\ Len(tb.lines[AbsRow(tb) + 1]) = 2
    /\ tb.cursor_x = 1
    /\ tb.cursor_y = 0
    /\ tb.offset_y = rt.snap.offset_y
    /\ tb.offset_y > 0


\* the cursor is on an existing line at a column within it
ValidCursorOf(t) == OnLine(t) /\ t.cursor_x <= Len(t.lines[AbsRow(t) + 1])

\* v is t with the column clamped to the line the cursor is on and nothing
\* else of the cursor moved
ColumnClampedInPlace(t, v) ==
    /\ v.cursor_y = t.cursor_y
    /\ v.offset_y = t.offset_y
    /\ v.cursor_x = Min(t.cursor_x, Len(t.lines[AbsRow(t) + 1]))

\* C25: move_up with the cursor on the first document line and move_down
\* with the cursor on the last document line leave cursor_y and offset_y
\* unchanged and set the column to min(column, length of the current line).
VerticalMotionAtEdges ==
    [][/\ (Move_up /\ OnLine(tb) /\ AbsRow(tb) = 0)
              => ColumnClampedInPlace(tb, tb')
       /\ (Move_down /\ OnLine(tb) /\ AbsRow(tb) = Len(tb.lines) - 1)
              => ColumnClampedInPlace(tb, tb')]_vars


\* the cursor of v is where the cursor of t is
SamePosition(t, v) ==
    /\ v.cursor_x = t.cursor_x
    /\ v.cursor_y = t.cursor_y
    /\ v.offset_y = t.offset_y

\* the cursor is at the end of the existing line it is on
AtLineEnd(t) == OnLine(t) /\ t.cursor_x = Len(t.lines[AbsRow(t) + 1])

\* move_right from the end of a line: to column 0 of the next line when
\* there is one, and no move on the last line
WrapsRight ==
    (Move_right /\ AtLineEnd(tb))
        => IF AbsRow(tb) + 1 < Len(tb.lines)
           THEN /\ tb'.panic = ""
                /\ tb'.cursor_x = 0
                /\ AbsRow(tb') = AbsRow(tb) + 1
           ELSE SamePosition(tb, tb')

\* move_left from column 0: to the end of the previous line when there is
\* one, and no move at the document start
WrapsLeft ==
    (Move_left /\ OnLine(tb) /\ tb.cursor_x = 0)
        => IF AbsRow(tb) > 0
           THEN /\ tb'.panic = ""
                /\ AbsRow(tb') = AbsRow(tb) - 1
                /\ tb'.cursor_x = Len(tb.lines[AbsRow(tb)])
           ELSE SamePosition(tb, tb')

\* C26: move_right at the end of a line that has a successor moves the
\* cursor to column 0 of the next line, move_left at column 0 of a line
\* that has a predecessor moves it to the end of the previous line;
\* move_right at the end of the last line and move_left at the document
\* start leave the cursor position unchanged.
HorizontalWrap == [][WrapsRight /\ WrapsLeft]_vars


(***************************************************************************)
(* The Editor component's cursor keys: the KeyCode::Right, KeyCode::Down   *)
(* and KeyCode::Up arms of Editor::on_key in src/src/editor.rs, which      *)
(* repeat the motions of TextBuffer on the Editor's own lines, cursor_x,   *)
(* cursor_y and offset_y.  KeySpec is the editor under these keys and      *)
(* typing.                                                                 *)
(***************************************************************************)
\* the lazy correction of a stale row in the key handlers:
\*   if offset_y >= len { offset_y = len.saturating_sub(1) }
\*   cursor_y = len - offset_y
EdClampRow(e) ==
    LET len == Len(e.lines)
        o == IF e.offset_y >= len THEN SatSub(len, 1) ELSE e.offset_y
    IN  [e EXCEPT !.offset_y = o, !.cursor_y = len - o]

\* the scroll adjustment of the key handlers
EdScrollIntoView(e, height) ==
    IF e.cursor_y + e.offset_y >= height
    THEN [e EXCEPT !.offset_y = e.cursor_y + e.offset_y - height + 1,
                   !.cursor_y = height - 1]
    ELSE e

\* lines.get(i).map(String::len).unwrap_or(0)
EdLineLen(e, i) == IF i < Len(e.lines) THEN Len(e.lines[i + 1]) ELSE 0

\* on_key, KeyCode::Down
KeyDown(e, height) ==
    IF e.cursor_y + e.offset_y + 1 < Len(e.lines)
    THEN EdScrollIntoView([e EXCEPT !.cursor_y = e.cursor_y + 1], height)
    ELSE IF Len(e.lines) = 0
    THEN [e EXCEPT !.cursor_x = 0, !.cursor_y = 0, !.offset_y = 0]
    ELSE LET e1 == IF e.cursor_y + e.offset_y >= Len(e.lines)
                   THEN EdClampRow(e)
                   ELSE e
         IN  [e1 EXCEPT !.cursor_x = EdLineLen(e1, e1.cursor_y)]

\* on_key, KeyCode::Up
KeyUp(e) ==
    IF e.cursor_y + e.offset_y = 0 THEN [e EXCEPT !.cursor_x = 0]
    ELSE LET e1 == IF e.cursor_y + e.offset_y > Len(e.lines)
                   THEN EdClampRow(e)
                   ELSE e
             e2 == IF e1.cursor_y = 0
                   THEN IF e1.offset_y > 0
                        THEN [e1 EXCEPT !.offset_y = e1.offset_y - 1]
                        ELSE e1
                   ELSE [e1 EXCEPT !.cursor_y = e1.cursor_y - 1]
             row == e2.offset_y + e2.cursor_y
         IN  IF row < Len(e2.lines)
             THEN [e2 EXCEPT !.cursor_x = Min(e2.cursor_x, Len(e2.lines[row + 1]))]
             ELSE e2

\* on_key, KeyCode::Right
KeyRight(e, height) ==
    LET e1 == IF e.cursor_y + e.offset_y >= Len(e.lines)
              THEN EdClampRow(e)
              ELSE e
    IN  IF Len(e1.lines) = 0 THEN e1
        ELSE IF e1.cursor_x = EdLineLen(e1, e1.offset_y + e1.cursor_y)
        THEN IF e1.offset_y + e1.cursor_y + 1 >= Len(e1.lines) THEN e1
             ELSE EdScrollIntoView([e1 EXCEPT !.cursor_x = 0,
                                              !.cursor_y = e1.cursor_y + 1],
                                   height)
        ELSE [e1 EXCEPT !.cursor_x = e1.cursor_x + 1]

\* the observer's record of a key: the arm of on_key that ran last and the
\* editor before it
RtKey(key, e) == [phase |-> key, snap |-> e, n |-> 0, typed |-> 0]

KeyInit ==
    /\ \/ ed = EditorNew(FALSE, <<>>)
       \/ \E text \in InitialTexts : ed = EditorNew(TRUE, text)
    /\ val = <<>>
    /\ tb = New(ViewWidth, 1)
    /\ rt = RtIdle
    /\ ThreadsInit

Typed_char ==
    /\ SumLens(ed.lines) < MaxCells
    /\ \E c \in TBChars : ed' = KeyChar(ed, c, MaxHeight)
    /\ rt' = RtKey("key_char", ed)
    /\ UNCHANGED <<val, tb, thvars>>

Key_right ==
    /\ ed.cursor_x < MaxCol
    /\ ed' = KeyRight(ed, MaxHeight)
    /\ rt' = RtKey("key_right", ed)
    /\ UNCHANGED <<val, tb, thvars>>

Key_down ==
    /\ ed' = KeyDown(ed, MaxHeight)
    /\ rt' = RtKey("key_down", ed)
    /\ UNCHANGED <<val, tb, thvars>>

Key_up ==
    /\ ed' = KeyUp(ed)
    /\ rt' = RtKey("key_up", ed)
    /\ UNCHANGED <<val, tb, thvars>>

KeyNext == Typed_char \/ Key_right \/ Key_down \/ Key_up

KeySpec == KeyInit /\ [][KeyNext]_vars


\* the editor's cursor is on an existing line
EdOnLine(e) == e.cursor_y + e.offset_y < Len(e.lines)

EdAbsRow(e) == e.cursor_y + e.offset_y

\* the Up or Down arm of on_key moved the cursor from an existing line to
\* another existing line
KeyMovedToOtherLine ==
    /\ rt.phase \in {"key_up", "key_down"}
    /\ EdOnLine(rt.snap)
    /\ EdOnLine(ed)
    /\ EdAbsRow(ed) # EdAbsRow(rt.snap)

\* C27, for the Editor's Up and Down keys: when the key moves the cursor
\* onto an existing different line, the new column is min(old column,
\* length of the destination line).
KeysClampColumn ==
    KeyMovedToOtherLine
        => ed.cursor_x = Min(rt.snap.cursor_x,
                             Len(ed.lines[EdAbsRow(ed) + 1]))

\* C27, for TextBuffer::move_up and TextBuffer::move_down: when the motion
\* moves the cursor onto an existing different line, the new column is
\* min(old column, length of the destination line).
MotionsClampColumn ==
    [][((Move_up \/ Move_down) /\ OnLine(tb) /\ tb'.panic = ""
            /\ OnLine(tb') /\ AbsRow(tb') # AbsRow(tb))
          => tb'.cursor_x = Min(tb.cursor_x, Len(tb'.lines[AbsRow(tb') + 1]))]_vars


\* C28: move_to_lineend with the cursor on an existing line sets cursor_x to
\* the length of the line at index offset_y + cursor_y and leaves cursor_y
\* and offset_y unchanged, whatever the scroll offset.
LineendOfCurrentLine ==
    [][(Move_to_lineend /\ OnLine(tb))
          => /\ tb'.cursor_x = Len(tb.lines[AbsRow(tb) + 1])
             /\ tb'.cursor_y = tb.cursor_y
             /\ tb'.offset_y = tb.offset_y]_vars


\* C29: after move_to_end the absolute row offset_y + cursor_y is
\* lines.len() - 1 and cursor_x is the length of the last line; after
\* move_to_start cursor_x = cursor_y = offset_y = 0.
EndAndStartOfDocument ==
    [][/\ Move_to_end
              => /\ AbsRow(tb') = Len(tb.lines) - 1
                 /\ tb'.cursor_x = Len(tb.lines[Len(tb.lines)])
       /\ Move_to_start
              => /\ tb'.cursor_x = 0
                 /\ tb'.cursor_y = 0
                 /\ tb'.offset_y = 0]_vars


\* the cursor's absolute row is at or beyond the line count
Stale(t) == AbsRow(t) >= Len(t.lines)

\* the operations that correct a stale row: remove_char_before and the
\* motions move_up, move_down, move_left, move_right and move_to_lineend
StepCorrecting ==
    \/ Remove_char_before
    \/ Move_up
    \/ Move_down
    \/ Move_left
    \/ Move_right
    \/ Move_to_lineend

\* C30: remove_char_before or a cursor motion applied while
\* offset_y + cursor_y >= lines.len() does not fail, and afterwards the
\* cursor is on an existing line at a column within it.
LazyCorrection ==
    [][(StepCorrecting /\ Stale(tb))
          => /\ tb'.panic = ""
             /\ ValidCursorOf(tb')]_vars


(***************************************************************************)
(* TextBuffer::resize, and ResizeSpec: the TextBuffer under its editing    *)
(* operations and resizes of the viewport.                                 *)
(***************************************************************************)
\* TextBuffer::resize(new_width, new_height)
Resize(t, new_width, new_height) ==
    [t EXCEPT !.width = new_width, !.height = new_height]

Resize_view ==
    /\ Alive
    /\ \E h \in Heights : tb' = Resize(tb, ViewWidth, h)
    /\ rt' = RtIdle
    /\ UNCHANGED <<thvars, edvars>>

ResizeNext == TBNext \/ Resize_view

ResizeSpec == TBInit /\ [][ResizeNext]_vars

\* C31: after TextBuffer::resize(w, h) with h >= 1 from any reachable state
\* the cursor is still on a row of the viewport, 0 <= cursor_y < h, and
\* resize changes nothing but width and height.
ResizeKeepsCursorInView ==
    [][Resize_view
          => /\ tb'.cursor_y < tb'.height
             /\ tb'.lines = tb.lines
             /\ tb'.cursor_x = tb.cursor_x
             /\ tb'.cursor_y = tb.cursor_y
             /\ tb'.offset_y = tb.offset_y]_vars


(***************************************************************************)
(* PolicySpec: the re-highlighting policy.  highlight_all is run on the    *)
(* buffer once, and every edit is followed by highlight_current_line.      *)
(***************************************************************************)
PolicyInit ==
    /\ \E s \in HlTexts : tb = HighlightAll(FromIter(s, ViewWidth, MaxHeight))
    /\ rt = RtIdle
    /\ ThreadsInit
    /\ RunIdle

Edit_insert_char ==
    /\ Alive
    /\ \E c \in HLChars \cup {NL} :
          /\ IF c = NL THEN Len(tb.lines) < MaxLines ELSE HlRoom(tb)
          /\ LET t == InsertChar(tb, c)
             IN  tb' = IF t.panic # "" THEN t ELSE HighlightCurrentLine(t)
          /\ rt' = RtIdle
    /\ UNCHANGED <<thvars, edvars>>

Edit_remove_char_before ==
    /\ Alive
    /\ LET t == RemoveCharBefore(tb)
       IN  tb' = IF t.panic # "" THEN t ELSE HighlightCurrentLine(t)
    /\ rt' = RtIdle
    /\ UNCHANGED <<thvars, edvars>>

PolicyNext == Edit_insert_char \/ Edit_remove_char_before

PolicySpec == PolicyInit /\ [][PolicyNext]_vars

\* C32: from a buffer on which highlight_all was run, after any sequence of
\* edits each followed by highlight_current_line, the tags of every line
\* are the ones a fresh highlight_line of the line's characters assigns.
TagsConsistent ==
    \A i \in 1..Len(tb.lines) : tb.lines[i] = HighlightLine(Untagged(tb.lines[i]))


(***************************************************************************)
(* LexSpec: highlight_line as a function of one line.  A line of untagged  *)
(* cells is drawn from LexLines and highlight_line is applied to it; the   *)
(* observer keeps the line as it was.                                      *)
(***************************************************************************)
MaxLexLen == 4      \* the lines of LexSpec have at most this many characters

\* a brace of each direction, and one character to open each lexer state
LexBraceChars == {"(", "]", "/", "\"", "1", "a", "#", "@"}

\* the characters of the number rule, a letter and a brace
LexNumberChars == {"1", ".", "-", "a", "("}

\* both quotes, the escape character and a letter
LexStringChars == {"\"", "'", "\\", "a"}

\* the words the identifier arm tells apart, and every beginning of one
LexKeywords == {<<"l", "o", "o", "p">>, <<"t", "r", "u", "e">>,
                <<"f", "a", "l", "s", "e">>}
LexWords ==
    UNION {{SubSeq(w, 1, k) : k \in 1..Len(w)} : w \in LexKeywords \cup VALID_WIDGETS}
        \cup {<<"T", "r", "u", "e">>, <<"L", "o", "o", "p">>}

\* what stands before and after the word on the line
LexBefore == {<<>>, <<" ">>, <<"(">>}
LexAfter == {<<>>, <<" ">>, <<")">>, <<"x">>, <<"_">>, <<"|">>, <<"1">>,
             <<" ", "x">>, <<"/", "/">>}

LexIdentLines == {b \o w \o e : b \in LexBefore, w \in LexWords, e \in LexAfter}

LexLines(max) ==
    Strings(LexBraceChars, max) \cup Strings(LexNumberChars, max)
        \cup Strings(LexStringChars, max) \cup LexIdentLines

LexInit ==
    /\ \E s \in LexLines(MaxLexLen) : tb = FromIter(s, ViewWidth, 1)
    /\ rt = RtIdle
    /\ ThreadsInit
    /\ RunIdle

Lex_highlight_line ==
    /\ rt.phase = "idle"
    /\ tb' = HighlightLineAt(tb, 0)
    /\ rt' = [phase |-> "lexed", snap |-> tb, n |-> 0, typed |-> 0]
    /\ UNCHANGED <<thvars, edvars>>

LexNext == Lex_highlight_line

LexSpec == LexInit /\ [][LexNext]_vars

\* the scanner of highlight_line after it has dealt with the characters
\* before index n
RECURSIVE ScanTo(_, _)
ScanTo(z, n) ==
    IF z.current < n /\ z.current < Len(z.line) THEN ScanTo(ScanStep(z), n) ELSE z

\* the lexer state in which highlight_line meets the character at index n
LexStateAt(line, n) == ScanTo(ScanStart(ResetTags(line)), n).state

\* highlight_line has run on the line of the buffer
Lexed == rt.phase = "lexed" /\ tb.panic = ""

LexedLine == tb.lines[1]


\* C33: after highlight_line every cell holding one of [ ] { } ( ) is tagged
\* Braces when the lexer is not inside a string literal at that character,
\* whatever other state it is in (a comment, or a number, hex literal,
\* identifier or component reference that the brace ends), and is never
\* tagged Braces when it is inside a string literal.
BraceTagging ==
    Lexed =>
        \A i \in 1..Len(LexedLine) :
            LexedLine[i].c \in BraceChars =>
                IF LexStateAt(LexedLine, i - 1) = "String"
                THEN LexedLine[i].s # "Braces"
                ELSE LexedLine[i].s = "Braces"


\* the character at 1-based index i of the line, "nul" past its end
CharAt(line, i) == IF i <= Len(line) THEN line[i].c ELSE "nul"

\* the start rule of a number: a digit, a `.` directly before a digit, or a
\* `-` directly before a digit or a `.`
StartsNumber(line, i) ==
    \/ CharAt(line, i) \in Digits
    \/ CharAt(line, i) = "." /\ CharAt(line, i + 1) \in Digits
    \/ CharAt(line, i) = "-" /\ CharAt(line, i + 1) \in Digits \cup {"."}

\* the index of the last character of the run of digits and `.` that
\* follows index i
RECURSIVE RunEnd(_, _)
RunEnd(line, i) ==
    IF IsNumberChar(CharAt(line, i + 1)) THEN RunEnd(line, i + 1) ELSE i

\* C34: a character met in lexer state None is the start of a Number span
\* exactly when it is a digit, a `.` directly followed by a digit, or a `-`
\* directly followed by a digit or `.`; the span is that character and the
\* run of digits and `.` after it.
NumberStartRule ==
    Lexed =>
        \A i \in 1..Len(LexedLine) :
            LexStateAt(LexedLine, i - 1) = "None" =>
                IF StartsNumber(LexedLine, i)
                THEN \A j \in i..RunEnd(LexedLine, i) : LexedLine[j].s = "Number"
                ELSE LexedLine[i].s # "Number"


\* the index of the first character from index j on that is the quote q
\* and is not escaped, 0 when there is none; esc says whether the
\* character at j is escaped by a `\` before it
RECURSIVE FindClose(_, _, _, _)
FindClose(line, q, j, esc) ==
    IF j > Len(line) THEN 0
    ELSE IF esc THEN FindClose(line, q, j + 1, FALSE)
    ELSE IF line[j].c = "\\" THEN FindClose(line, q, j + 1, TRUE)
    ELSE IF line[j].c = q THEN j
    ELSE FindClose(line, q, j + 1, FALSE)

\* a quote met in lexer state None at index i
OpensString(line, i) ==
    /\ LexStateAt(line, i - 1) = "None"
    /\ line[i].c \in {"'", "\""}

\* C35: a quote met in lexer state None opens a string tagged String from
\* the opening quote through the first later occurrence of the same quote
\* that is not escaped by a `\`; when the line has no such quote, no cell
\* from the opening quote to the end of the line gets a tag, and nothing
\* fails.
StringSpans ==
    /\ rt.phase = "lexed" => tb.panic = ""
    /\ Lexed =>
          \A i \in 1..Len(LexedLine) :
              OpensString(LexedLine, i) =>
                  LET close == FindClose(LexedLine, LexedLine[i].c, i + 1, FALSE)
                  IN  IF close # 0
                      THEN \A j \in i..close : LexedLine[j].s = "String"
                      ELSE \A j \in i..Len(LexedLine) : LexedLine[j].s = "None"

\* a string that holds an escaped quote of its own kind was tagged up to
\* the quote that closes it
EscapedQuoteInString ==
    /\ Lexed
    /\ Len(LexedLine) = 4
    /\ OpensString(LexedLine, 1)
    /\ LexedLine[2].c = "\\"
    /\ LexedLine[3].c = LexedLine[1].c
    /\ LexedLine[4].c = LexedLine[1].c
    /\ \A j \in 1..4 : LexedLine[j].s = "String"


(***************************************************************************)
(* Identifier classification.                                              *)
(***************************************************************************)
\* highlight_line enters the Ident state at the character at index i
OpensIdent(line, i) ==
    LexStateAt(line, i) = "Ident" /\ LexStateAt(line, i - 1) # "Ident"

\* the index of the last character of the run of identifier characters
\* that follows index i
RECURSIVE IdentEnd(_, _)
IdentEnd(line, i) ==
    IF IsIdentChar(CharAt(line, i + 1)) THEN IdentEnd(line, i + 1) ELSE i

\* the tag of an identifier by its text
IdentStyle(text) ==
    IF text = <<"l", "o", "o", "p">> THEN "Number"
    ELSE IF text \in VALID_WIDGETS THEN "Widget"
    ELSE IF text = <<"t", "r", "u", "e">> \/ text = <<"f", "a", "l", "s", "e">>
    THEN "Boolean"
    ELSE "None"

\* C36: an identifier, a letter met in lexer state None and the run of
\* letters, digits, `_` and `|` after it, carries one tag on all its cells,
\* whether another character or the end of the line ends it: Number when it
\* is `loop`, Widget when it is a widget name of the whitelist, Boolean when
\* it is `true` or `false`, and no tag otherwise.
IdentifierClassification ==
    Lexed =>
        \A i \in 1..Len(LexedLine) :
            OpensIdent(LexedLine, i) =>
                LET e == IdentEnd(LexedLine, i)
                    text == SubSeq(LineText(LexedLine), i, e)
                IN  \A k \in i..e : LexedLine[k].s = IdentStyle(text)

\* `false` ends the line and is tagged Boolean on all five cells
KeywordEndsLine ==
    /\ Lexed
    /\ LineText(LexedLine) = <<" ", "f", "a", "l", "s", "e">>
    /\ \A k \in 2..6 : LexedLine[k].s = "Boolean"


-----------------------------------------------------------------------------
(***************************************************************************)
(* The frame the panic hook builds from the panic message, cell by cell.   *)
(***************************************************************************)
MaxMsgLen == 4

CR == "\r"
PanicChars == {"a", NL, CR}
PanicMessages(max) == Strings(PanicChars, max)

\* panic_prefix
PanicPrefix == <<"P", "a", "n", "i", "c", ":", " ">>

\* RenderedBuffer::create: width * height cells holding '\0'; fault records
\* a write outside the array
Create(width, height) ==
    [width |-> width, height |-> height,
     value |-> [i \in 1..(width * height) |-> "nul"], fault |-> FALSE]

\* RenderedBuffer::set_at: value[x + y * width] = (character, style), an
\* index past the array panics
SetAt(b, x, y, character) ==
    IF b.fault THEN b
    ELSE IF x + y * b.width < Len(b.value)
    THEN [b EXCEPT !.value[x + y * b.width + 1] = character]
    ELSE [b EXCEPT !.fault = TRUE]

\* a faulty variant of the measuring loop: the last line is not counted
RECURSIVE HookMeasureWithoutLastLine(_, _)
HookMeasureWithoutLastLine(str, m) ==
    IF str = <<>> THEN m
    ELSE IF Head(str) = NL
    THEN HookMeasureWithoutLastLine(Tail(str),
             [width |-> IF m.width >= m.last_width THEN m.width ELSE m.last_width,
              height |-> m.height + 1, last_width |-> 0])
    ELSE HookMeasureWithoutLastLine(Tail(str), [m EXCEPT !.last_width = @ + 1])

\* the hook's loop over str.chars() and the statement after it
RECURSIVE HookMeasure(_, _)
HookMeasure(str, m) ==
    IF str = <<>>
    THEN [m EXCEPT !.width = IF m.width >= m.last_width THEN m.width ELSE m.last_width]
    ELSE IF Head(str) = NL
    THEN HookMeasure(Tail(str),
             [width |-> IF m.width >= m.last_width THEN m.width ELSE m.last_width,
              height |-> m.height + 1, last_width |-> 0])
    ELSE HookMeasure(Tail(str), [m EXCEPT !.last_width = @ + 1])

\* the locals before the loop
HookMeasureStart == [width |-> 0, height |-> 3, last_width |-> Len(PanicPrefix)]

\* the index of the first '\n' of str, 0 when it has none
FirstNL(str) ==
    IF \E i \in 1..Len(str) : str[i] = NL
    THEN CHOOSE i \in 1..Len(str) : str[i] = NL /\ \A j \in 1..(i - 1) : str[j] # NL
    ELSE 0

\* str::lines(): the pieces ended by '\n', without the '\n' and without a
\* '\r' directly before it; the rest after the last '\n' is a line unless it
\* is empty
RECURSIVE HookLines(_)
HookLines(str) ==
    IF str = <<>> THEN <<>>
    ELSE LET n == FirstNL(str) IN
         IF n = 0 THEN <<str>>
         ELSE LET line == SubSeq(str, 1, n - 1)
                  stripped == IF line # <<>> /\ line[Len(line)] = CR
                              THEN SubSeq(line, 1, Len(line) - 1) ELSE line
              IN  <<stripped>> \o HookLines(SubSeq(str, n + 1, Len(str)))

\* the set_at calls of the hook in their order: the prefix on row 1, then
\* line y of the message on row y + 1, the first one after the prefix
PrefixWrites == [x \in 1..Len(PanicPrefix) |-> [x |-> x - 1, y |-> 1, c |-> PanicPrefix[x]]]

LineWrites(line, y) ==
    [x \in 1..Len(line) |->
        [x |-> IF y = 0 THEN x - 1 + Len(PanicPrefix) ELSE x - 1,
         y |-> y + 1, c |-> line[x]]]

RECURSIVE LinesWrites(_, _)
LinesWrites(lines, y) ==
    IF y >= Len(lines) THEN <<>>
    ELSE LineWrites(lines[y + 1], y) \o LinesWrites(lines, y + 1)

HookWrites(str) == PrefixWrites \o LinesWrites(HookLines(str), 0)

RECURSIVE ApplyWrites(_, _)
ApplyWrites(b, ws) ==
    IF ws = <<>> THEN b ELSE ApplyWrites(SetAt(b, Head(ws).x, Head(ws).y, Head(ws).c), Tail(ws))

\* the frame the hook sends for the message
CrashFrame(str) ==
    LET m == HookMeasure(str, HookMeasureStart)
    IN  ApplyWrites(Create(m.width, m.height), HookWrites(str))

\* a worker that has set the hook and runs, its handle in THREAD_HANDLE
CrashInit ==
    /\ slot = 1
    /\ main = MainIdle
    /\ hook = 1
    /\ workers = [i \in 1..MaxWorkers |->
                     IF i = 1
                     THEN [NoWorker EXCEPT !.status = "running", !.size = <<1, 2>>,
                                           !.applied = <<1, 2>>, !.handle = TRUE,
                                           !.hooked = TRUE]
                     ELSE NoWorker]
    /\ tb = New(ViewWidth, 1)
    /\ rt = RtIdle
    /\ RunIdle

(* The worker panics with a message: the hook builds the frame and sends   *)
(* it, and the thread ends.  A fault while building the frame is a panic   *)
(* inside the hook: nothing is sent.                                       *)
Worker_panics ==
    /\ workers[1].status = "running"
    /\ \E str \in PanicMessages(MaxMsgLen) :
          LET frame == CrashFrame(str) IN
          /\ workers' = [workers EXCEPT
                            ![1].frames = IF frame.fault THEN @ ELSE Append(@, frame),
                            ![1].last = "panic",
                            ![1].panics = @ + 1,
                            ![1].status = "crashed",
                            ![1].events = <<>>,
                            ![1].size = <<0, 0>>,
                            ![1].applied = <<0, 0>>]
          /\ rt' = [phase |-> "panic", msg |-> str, frame |-> frame]
    /\ UNCHANGED <<slot, main, hook, tb, edvars>>

CrashNext == Worker_panics

CrashSpec == CrashInit /\ [][CrashNext]_vars


(***************************************************************************)
(* The crash frame and its text.                                           *)
(***************************************************************************)
Panicked == rt.phase = "panic"

NewlinesOf(str) == Newlines(str)

\* the pieces of str between its '\n' characters, the one after the last
\* '\n' included
RECURSIVE Pieces(_)
Pieces(str) ==
    LET n == FirstNL(str) IN
    IF n = 0 THEN <<str>>
    ELSE <<SubSeq(str, 1, n - 1)>> \o Pieces(SubSeq(str, n + 1, Len(str)))

\* the largest length of the lines, the first one counted with the prefix
WidestOf(lines) ==
    LET lens == {Len(PanicPrefix)} \cup
                {Len(lines[y]) + (IF y = 1 THEN Len(PanicPrefix) ELSE 0) :
                    y \in 1..Len(lines)}
    IN  CHOOSE n \in lens : \A k \in lens : k <= n

\* every write of the hook lands inside the frame, and the frame holds the
\* written characters
WritesInBounds ==
    LET f == rt.frame
        ws == HookWrites(rt.msg)
    IN  /\ ~f.fault
        /\ Len(f.value) = f.width * f.height
        /\ \A k \in 1..Len(ws) :
              /\ ws[k].x < f.width /\ ws[k].y < f.height
              /\ f.value[ws[k].x + ws[k].y * f.width + 1] = ws[k].c

-----------------------------------------------------------------------------
(***************************************************************************)
(* One render pass of the worker, cell by cell.  The worker's Buffer is    *)
(* painted by the rendering engine; ThreadBackend::render copies it into   *)
(* the frame it sends.                                                     *)
(***************************************************************************)
MaxGrid == 2

\* Glyph::GlyphSingle(c, _) and Glyph::GlyphCluster(idx, _) with the string the glyph
\* map holds for idx
GlyphSingle(c) == [kind |-> "Single", chars |-> <<c>>]
GlyphCluster(s) == [kind |-> "Cluster", chars |-> s]
Glyphs == {GlyphSingle(" "), GlyphSingle("a"), GlyphCluster(<<"e", "'">>)}

\* the worker's Buffer: rows of cells, cell (x, y) at [y + 1][x + 1]
GridsOf(width, height) == [1..height -> [1..width -> Glyphs]]
BlankGrid(width, height) == [y \in 1..height |-> [x \in 1..width |-> GlyphSingle(" ")]]

GridWidth(g) == Len(g[1])
GridHeight(g) == Len(g)

\* the set_at calls of the glyph at (x, y)
GlyphWrites(glyph, x, y) ==
    IF glyph.kind = "Single"
    THEN <<[x |-> x, y |-> y, c |-> glyph.chars[1]]>>
    ELSE [k \in 1..Len(glyph.chars) |-> [x |-> x + k - 1, y |-> y, c |-> glyph.chars[k]]]

\* for y in 0..size.height
RECURSIVE ColumnWrites(_, _, _)
ColumnWrites(g, x, y) ==
    IF y >= GridHeight(g) THEN <<>>
    ELSE GlyphWrites(g[y + 1][x + 1], x, y) \o ColumnWrites(g, x, y + 1)

\* for x in 0..size.width
RECURSIVE RenderWrites(_, _)
RenderWrites(g, x) ==
    IF x >= GridWidth(g) THEN <<>>
    ELSE ColumnWrites(g, x, 0) \o RenderWrites(g, x + 1)

\* the frame render builds before it sends it
RenderFrame(g) ==
    ApplyWrites(Create(GridWidth(g), GridHeight(g)), RenderWrites(g, 0))

\* a worker that has set the hook and runs, its Buffer new
RenderInit ==
    /\ slot = 1
    /\ main = MainIdle
    /\ hook = 1
    /\ \E w \in 1..MaxGrid, h \in 1..MaxGrid :
          /\ workers = [i \in 1..MaxWorkers |->
                           IF i = 1
                           THEN [NoWorker EXCEPT !.status = "running", !.size = <<w, h>>,
                                                 !.applied = <<w, h>>, !.handle = TRUE,
                                                 !.hooked = TRUE]
                           ELSE NoWorker]
          /\ rt = [phase |-> "new", buffer |-> BlankGrid(w, h)]
    /\ tb = New(ViewWidth, 1)
    /\ RunIdle

(* The runtime paints the widgets into the worker's Buffer.                *)
Worker_paint ==
    /\ workers[1].status = "running"
    /\ rt.phase = "new"
    /\ \E g \in GridsOf(workers[1].size[1], workers[1].size[2]) :
          rt' = [phase |-> "painted", buffer |-> g]
    /\ UNCHANGED <<thvars, tb, edvars>>

(* ThreadBackend::render: the frame is built and sent; a write outside the *)
(* frame's array is a panic of the worker.                                 *)
Worker_render ==
    /\ workers[1].status = "running"
    /\ rt.phase = "painted"
    /\ LET frame == RenderFrame(rt.buffer) IN
       /\ IF frame.fault
          THEN Crash(1, "index out of bounds")
          ELSE workers' = [workers EXCEPT ![1].frames = Append(@, frame),
                                          ![1].last = "frame"]
       /\ rt' = [phase |-> "rendered", buffer |-> rt.buffer, frame |-> frame]
    /\ UNCHANGED <<slot, main, hook, tb, edvars>>

RenderNext == Worker_paint \/ Worker_render

RenderSpec == RenderInit /\ [][RenderNext]_vars

\* C38: every frame render sends has width * height cells, every write made
\* while building it has x < width and y < height, also the writes of a
\* glyph cluster of several characters in the last column, and cell (x, y)
\* of the frame holds the glyph of cell (x, y) of the worker's buffer.
FramesDenseAndInBounds ==
    rt.phase = "rendered" =>
        LET f == rt.frame
            g == rt.buffer
            ws == RenderWrites(g, 0)
        IN  /\ ~f.fault
            /\ f.width = GridWidth(g) /\ f.height = GridHeight(g)
            /\ Len(f.value) = f.width * f.height
            /\ \A k \in 1..Len(ws) : ws[k].x < f.width /\ ws[k].y < f.height
            /\ \A y \in 0..(f.height - 1) : \A x \in 0..(f.width - 1) :
                  f.value[x + y * f.width + 1] = g[y + 1][x + 1].chars[1]


(***************************************************************************)
(* What the controller learns from the handle of a worker.                 *)
(***************************************************************************)
\* what AnathemaThreadHandle::resize returns: send fails once the worker's
\* Receiver of the control channel is gone
ResizeResult(w) == IF ThreadAlive(w) THEN "Ok" ELSE "Err"

\* C39: through a handle the controller can tell a dead worker: once the
\* worker thread has ended and the frames it sent are taken, get_buffer
\* returns Err and resize returns Err; while the worker is alive get_buffer
\* does not return Err and resize puts exactly one Resize event on the
\* control channel and returns Ok.
DeadWorkerDetected ==
    \A i \in 1..MaxWorkers :
        workers[i].handle =>
            /\ ThreadEnded(workers[i]) /\ workers[i].frames = <<>> =>
                  /\ GetBufferResult(i) = "Err"
                  /\ ResizeResult(workers[i]) = "Err"
                  /\ \A size \in Sizes :
                        SendEvent(workers[i], ResizeEvent(size[1], size[2])) = workers[i]
            /\ ThreadAlive(workers[i]) =>
                  /\ workers[i].frames = <<>> => GetBufferResult(i) = "Ok(None)"
                  /\ ResizeResult(workers[i]) = "Ok"
                  /\ \A size \in Sizes :
                        SendEvent(workers[i], ResizeEvent(size[1], size[2])).events =
                            Append(workers[i].events, ResizeEvent(size[1], size[2]))


-----------------------------------------------------------------------------
(***************************************************************************)
(* The text of a buffer: from_iter and to_string, with the operations that *)
(* do not edit in between.                                                 *)
(***************************************************************************)
MaxTextLen == 3

TextChars == {"a", "/", NL}
Texts(max) == Strings(TextChars, max)

\* a faulty variant of to_string: the last '\n' is not popped
RECURSIVE BufferToStringKeepingLastNewline(_)
BufferToStringKeepingLastNewline(t) ==
    IF t.lines = <<>> THEN <<>>
    ELSE LineText(Head(t.lines)) \o <<NL>>
            \o BufferToStringKeepingLastNewline([t EXCEPT !.lines = Tail(@)])

\* the loop of to_string: every line's characters followed by '\n'
RECURSIVE JoinedLines(_)
JoinedLines(lines) ==
    IF lines = <<>> THEN <<>>
    ELSE LineText(Head(lines)) \o <<NL>> \o JoinedLines(Tail(lines))

\* TextBuffer::to_string: the loop, then string.pop()
BufferToString(t) ==
    LET string == JoinedLines(t.lines)
    IN  IF string = <<>> THEN string ELSE SubSeq(string, 1, Len(string) - 1)

\* rt keeps the characters the buffer was built from
TextInit ==
    /\ \E s \in Texts(MaxTextLen), h \in Heights :
          /\ tb = FromIter(s, ViewWidth, h)
          /\ rt = [phase |-> "text", src |-> s]
    /\ ThreadsInit
    /\ RunIdle

\* the cursor motions
Motions(t) ==
    {MoveToStart(t), MoveToLinestart(t), MoveToEnd(t), MoveToLineend(t),
     MoveDown(t), MoveUp(t), MoveLeft(t)}
        \cup (IF t.cursor_x < MaxCol THEN {MoveRight(t)} ELSE {})

Text_move ==
    /\ Alive
    /\ tb' \in Motions(tb)
    /\ UNCHANGED <<rt, thvars, edvars>>

Text_resize ==
    /\ Alive
    /\ \E h \in Heights : tb' = Resize(tb, ViewWidth, h)
    /\ UNCHANGED <<rt, thvars, edvars>>

Text_highlight_all ==
    /\ Alive
    /\ tb' = HighlightAll(tb)
    /\ UNCHANGED <<rt, thvars, edvars>>

Text_highlight_current_line ==
    /\ Alive
    /\ tb' = HighlightCurrentLine(tb)
    /\ UNCHANGED <<rt, thvars, edvars>>

TextNext ==
    \/ Text_move
    \/ Text_resize
    \/ Text_highlight_all
    \/ Text_highlight_current_line

TextSpec == TextInit /\ [][TextNext]_vars

\* C40: to_string of the buffer from_iter builds from a character sequence
\* is that sequence, and it stays that sequence under cursor motions, resize
\* and highlighting.
TextRoundTrip == BufferToString(tb) = rt.src

\* a comment line and an empty last line: after highlighting, a motion to
\* the last line and a resize the text is still the source
RoundTripAfterMotions ==
    /\ rt.src = <<"/", "/", NL>>
    /\ tb.lines[1][1].s = "Comment"
    /\ tb.cursor_y + tb.offset_y = 1
    /\ tb.offset_y = 1
    /\ BufferToString(tb) = <<"/", "/", NL>>

=============================================================================
